---- MODULE Spec2Model ----
(***************************************************************************)
(* A model of the dependency analyser.                                     *)
(*                                                                         *)
(*   Spec          github-dependency-analyzer.py: main() driving           *)
(*                 process_repositories, write_results_to_csv,             *)
(*                 generate_markdown_report and                            *)
(*                 generate_missing_dependency_mapping.                    *)
(*   SpecResolver  fetch_dependency_license / fetch_dependency_url as pure *)
(*                 functions of the dependency, the override table and the *)
(*                 answers of the remote registries.                       *)
(*   SpecInfra     infrastructure.py: main() running analyze_repository    *)
(*                 for every repository under the repository semaphore.    *)
(*                                                                         *)
(* Strings that the code lower-cases are records [id, up]: id is the       *)
(* lower-case spelling, up says whether the spelling has capital letters.  *)
(* Python dicts are sequences of <<key, value>> pairs in insertion order.  *)
(***************************************************************************)
EXTENDS Integers, Sequences, FiniteSets, TLC

VARIABLES
    \* ---- github-dependency-analyzer.py ----
    mapping_file,         \* rows of dependency_mapping.csv on disk
    registry,             \* what the remote registry holds for the dependency with id 1
    pc,                   \* position of main()/process_repositories
    repo_idx,             \* index of repo_url in `repositories`
    dependency_map,       \* process_repositories: the normalised override table
    repo_types,           \* process_repositories: detected types of the current repository
    dependencies,         \* process_repositories: dep_type -> (dep -> version), current repository
    type_idx,             \* position of `for dep_type, deps in dependencies.items()`
    count,                \* process_repositories: count
    dependency_licenses,  \* process_repositories: dependency_licenses of the current repository
    dependency_urls,      \* process_repositories: dependency_urls of the current repository
    results,              \* process_repositories: results
    csv_rows,             \* rows of dependency_report.csv
    md_rows,              \* table rows of dependency_report.md
    missing_rows,         \* rows of missing-dependency-mapping.csv
    remote_requests,      \* HTTP requests issued for the current repository, per dep_type
    license_requests,     \* HTTP requests issued by the latest fetch_dependency_license call
    url_requests,         \* HTTP requests issued by the latest fetch_dependency_url call
    fetched,              \* a clone attempt for the latest repository left its tree in repo_dir
    \* ---- resolver as a function ----
    r_in,                 \* arguments and remote answers of one resolution
    r_out,                \* what the two fetch functions returned
    \* ---- infrastructure.py ----
    repos,                \* load_repositories(REPOS_FILE)
    main_pc,              \* position of main()
    task_pc,              \* position of every constrained_analyzer task
    repo_semaphore,       \* free permits of repo_semaphore
    work_dir,             \* the directories below temp_dir, by repository name
    task_result,          \* what every task returned or raised
    gathered,             \* results of asyncio.gather
    successful_reports,   \* main: successful_reports
    md_report,            \* infrastructure_report.md on disk
    out_of_order,         \* a task has finished before a task that precedes it in `tasks`
    \* ---- determine_repo_types and the extractors as functions of a tree ----
    repo_dir,             \* the files of the cloned tree, in the order the walk visits them
    extract_pc,           \* position in process_repositories' detection and extraction
    extract_raised,       \* an exception left an extractor
    \* ---- infrastructure.py: analyze_repository's scan of one cloned tree ----
    repo_path,            \* the files repo_path.rglob("*") yields, in walk order
    yaml,                 \* the yaml module was imported
    scan_pc,              \* position in analyze_repository
    file_idx,             \* position of the file loop at hand
    found_resources,      \* analyze_repository: found_resources
    workflow_files,       \* analyze_repository: workflow_files
    resources             \* analyze_repository: report.resources

analyzer_vars == <<mapping_file, registry, pc, repo_idx, dependency_map, repo_types,
                   dependencies, type_idx, count, dependency_licenses, dependency_urls,
                   results, csv_rows, md_rows, missing_rows, remote_requests,
                   license_requests, url_requests, fetched>>
resolver_vars == <<r_in, r_out>>
infra_vars == <<repos, main_pc, task_pc, repo_semaphore, work_dir, task_result, gathered,
                successful_reports, md_report, out_of_order>>
extractor_vars == <<repo_dir, extract_pc, extract_raised>>
scan_vars == <<repo_path, yaml, scan_pc, file_idx, found_resources, workflow_files, resources>>
vars == <<analyzer_vars, resolver_vars, infra_vars, extractor_vars, scan_vars>>

-----------------------------------------------------------------------------
(* Bounds of the model and constants of the program.                       *)

\* process_repositories: `if count >= 10`
ResolveCap == 10
\* largest number of dependencies one extractor returns
MaxDeps == 11
\* length of the repository list given to process_repositories
NumRepos == 2
\* check_github_repo_license: 7 license paths on two branches, then the API
GithubRequests == 15
\* infrastructure.py: MAX_CONCURRENT_REPOS
MAX_CONCURRENT_REPOS == 5
\* number of URLs in repos.txt
NumInfraRepos == 6
\* number of URLs in repos.txt for the runs checked for termination
NumFairRepos == 3

-----------------------------------------------------------------------------
(* Strings and dicts.                                                      *)

\* `':' in dependency`
HasColon(dependency) == dependency.colon

Str(id) == [id |-> id, up |-> FALSE]
Cap(id) == [id |-> id, up |-> TRUE]

\* str.lower()
Lower(s) == [s EXCEPT !.up = FALSE]

\* f"{dep_type}:{dep}"
Key(dep_type, dep) == <<dep_type, dep>>

\* only the name part of the key lower-cased
KeyLowerNameOnly(key) == <<key[1], [key[2] EXCEPT !.up = FALSE]>>

\* key.lower()
KeyLower(key) == <<Lower(key[1]), Lower(key[2])>>

DictHas(d, k) == \E i \in 1..Len(d) : d[i][1] = k
DictGet(d, k) == d[CHOOSE i \in 1..Len(d) : d[i][1] = k][2]
DictPut(d, k, v) ==
    IF DictHas(d, k)
    THEN [i \in 1..Len(d) |-> IF d[i][1] = k THEN <<k, v>> ELSE d[i]]
    ELSE Append(d, <<k, v>>)

\* dict.get(k, default) on a dict kept as a function
GetOr(f, k, default) == IF k \in DOMAIN f THEN f[k] ELSE default

None == "<None>"
Unknown == "Unknown"
OverrideMarker == "! "

Ecosystems == {"python", "javascript", "java", "dotnet"}

-----------------------------------------------------------------------------
(* The override table: dependency_mapping.csv.                             *)

RECURSIVE LoadRows(_, _)
LoadRows(rows, dep_map) ==
    IF rows = <<>> THEN dep_map
    ELSE LET row == Head(rows)
             key == Key(row.dependency_type, row.dependency_name)
         IN  LoadRows(Tail(rows), DictPut(dep_map, key, row))

\* load_dependency_mapping(): one entry per "type:name" key, spelled as in the file
load_dependency_mapping(file) == LoadRows(file, <<>>)

RECURSIVE NormalizeItems(_, _)
NormalizeItems(items, normalized_map) ==
    IF items = <<>> THEN normalized_map
    ELSE NormalizeItems(Tail(items),
                        DictPut(normalized_map, KeyLower(Head(items)[1]), Head(items)[2]))

\* the keys left as the file spells them
KeepKeys(dep_map) == dep_map

\* process_repositories: normalized_map[key.lower()] = value
NormalizeMap(dep_map) == NormalizeItems(dep_map, <<>>)

\* write_results_to_csv / generate_markdown_report: split(':', 1), lower both parts
NormalizeSplitMap(dep_map) == NormalizeItems(dep_map, <<>>)

-----------------------------------------------------------------------------
(* Remote registries.  A Response is what one HTTP request yields:         *)
(* status      transport_error | timeout | status_404 | malformed_body | ok*)
(* license     the license field of the body (Absent when it has none)     *)
(* homepage    the homepage / project URL field ("" when missing or empty) *)

FailureStatuses == {"transport_error", "timeout", "status_404", "malformed_body"}

\* the body has no license field
Absent == "<absent>"
\* the license field holds a JSON object, not a string
DictLicense == "<dict type=MIT>"
\* isinstance(license_data, str)
IsStr(v) == v # DictLicense
\* str(license_data)
PyStr(v) == IF v = DictLicense THEN "{'type': 'MIT'}" ELSE v
\* `if value:`
Truthy(v) == v \notin {Absent, ""}
HomeUrl == "https://example.org/home"
GithubUrl == "https://github.com/owner/repo"
GithubLicense == "Apache"

Failure(status) == [status |-> status, license |-> "", homepage |-> ""]
Responses ==
    {Failure(s) : s \in FailureStatuses}
    \cup [status : {"ok"}, license : {Absent, "", "MIT", DictLicense},
          homepage : {"", HomeUrl, GithubUrl}]

\* requests.get raises, or response.json() raises
Raises(resp) == resp.status \in {"transport_error", "timeout", "malformed_body"}
Ok(resp) == resp.status = "ok"

PypiProject == "https://pypi.org/project/"
NpmPackage == "https://www.npmjs.com/package/"
MvnArtifact == "https://mvnrepository.com/artifact/"
MvnSearch == "https://mvnrepository.com/search?q="
NugetPackage == "https://www.nuget.org/packages/"
GoogleSearch == "https://www.google.com/search?q="

\* extract_github_repo_from_url(url)
extract_github_repo_from_url(url) == IF url = GithubUrl THEN GithubUrl ELSE None

\* check_github_repo_license(repo_url): gh_hit is the first of the 15 requests that
\* answers 200 (0: none does)
check_github_repo_license(repo_url, gh_hit) ==
    IF repo_url = None THEN [value |-> None, requests |-> 0]
    ELSE IF gh_hit = 0 THEN [value |-> None, requests |-> GithubRequests]
    ELSE [value |-> GithubLicense, requests |-> gh_hit]

\* the lookup with the key spelled as in the manifest
OverrideValueCaseSensitive(dependency, dep_type, dep_map, column) ==
    LET key == Key(dep_type, dependency)
    IN  IF dep_map # <<>> /\ DictHas(dep_map, key)
        THEN DictGet(dep_map, key)[column]
        ELSE ""

\* the `if dependency_map: ... if key in dependency_map` lookup of both fetch functions
OverrideValue(dependency, dep_type, dep_map, column) ==
    LET key == Key(Lower(dep_type), Lower(dependency))
    IN  IF dep_map # <<>> /\ DictHas(dep_map, key)
        THEN DictGet(dep_map, key)[column]
        ELSE ""

\* a call that returns / a call whose body raised
Ret(value, requests, sleeps) ==
    [value |-> value, requests |-> requests, sleeps |-> sleeps, raised |-> FALSE]
Exc(requests, sleeps) ==
    [value |-> None, requests |-> requests, sleeps |-> sleeps, raised |-> TRUE]

\* the body without its exception handler
no_except(body, fallback) == body

\* try: <body> / except Exception as e: print(...), then the fallback return
try_except(body, fallback) ==
    IF body.raised THEN Ret(fallback, body.requests, body.sleeps) ELSE body

\* fetch_dependency_url: the python branch inside `try`; `urls` starts with the first
\* URL field the body has and ends with the link built from the name
python_url_body(env) ==
    IF Raises(env.url) THEN Exc(1, 1)
    ELSE IF Ok(env.url) /\ env.url.homepage # "" THEN Ret(env.url.homepage, 1, 1)
    ELSE Ret(PypiProject, 1, 1)

\* fetch_dependency_url: the javascript branch inside `try`
javascript_url_body(env) ==
    IF Raises(env.url) THEN Exc(1, 1)
    ELSE IF Ok(env.url) /\ env.url.homepage # "" THEN Ret(env.url.homepage, 1, 1)
    ELSE Ret(NpmPackage, 1, 1)

\* fetch_dependency_url: the java branch inside `try`; a name without ':' is not
\* looked up
java_url_body(dependency, env) ==
    IF ~HasColon(dependency) THEN Ret(MvnSearch, 0, 1)
    ELSE IF Raises(env.url) THEN Exc(1, 1)
    ELSE IF Ok(env.url) /\ env.url.homepage # "" THEN Ret(env.url.homepage, 1, 1)
    ELSE Ret(MvnArtifact, 1, 1)

\* fetch_dependency_url: the dotnet branch inside `try`; env.url answers the
\* packageinfo request, env.lic the catalog request
dotnet_url_body(env) ==
    IF Raises(env.url) THEN Exc(1, 1)
    ELSE IF Ok(env.url) /\ env.url.homepage # "" THEN Ret(env.url.homepage, 1, 1)
    ELSE IF Raises(env.lic) THEN Exc(2, 1)
    ELSE IF Ok(env.lic) /\ env.lic.homepage # "" THEN Ret(env.lic.homepage, 2, 1)
    ELSE Ret(NugetPackage, 2, 1)

\* fetch_dependency_url(dependency, dep_type, version, dependency_map)
fetch_dependency_url(dependency, dep_type, version, dep_map, env) ==
    LET mapped == OverrideValue(dependency, dep_type, dep_map, "documentation_url")
    IN  IF mapped # "" THEN Ret(mapped, 0, 0)
        ELSE IF dep_type = Str("python")
        THEN try_except(python_url_body(env), PypiProject)
        ELSE IF dep_type = Str("javascript")
        THEN try_except(javascript_url_body(env), NpmPackage)
        ELSE IF dep_type = Str("java")
        THEN try_except(java_url_body(dependency, env), MvnSearch)
        ELSE IF dep_type = Str("dotnet")
        THEN try_except(dotnet_url_body(env), NugetPackage)
        ELSE Ret(GoogleSearch, 0, 1)

\* github_url = extract_github_repo_from_url(url); if github_url:
\* license_from_repo = check_github_repo_license(github_url); the fall through to
\* `return 'Unknown'` when either finds nothing
repo_license(url, gh_hit, requests, sleeps) ==
    LET repo == check_github_repo_license(extract_github_repo_from_url(url), gh_hit)
    IN  Ret(IF repo.value # None THEN repo.value ELSE Unknown,
            requests + repo.requests, sleeps)

\* fetch_dependency_license: the python branch inside `try`
python_license_body(env) ==
    IF Raises(env.lic) THEN Exc(1, 1)
    ELSE IF ~Ok(env.lic) THEN Ret(Unknown, 1, 1)
    ELSE IF Truthy(env.lic.license) THEN Ret(env.lic.license, 1, 1)
    ELSE repo_license(env.lic.homepage, env.gh_hit, 1, 1)

\* fetch_dependency_license: the javascript branch inside `try`
javascript_license_body(env) ==
    IF Raises(env.lic) THEN Exc(1, 1)
    ELSE IF ~Ok(env.lic) THEN Ret(Unknown, 1, 1)
    ELSE IF env.lic.license # Absent
    THEN Ret(IF IsStr(env.lic.license) THEN env.lic.license ELSE PyStr(env.lic.license),
             1, 1)
    ELSE repo_license(env.lic.homepage, env.gh_hit, 1, 1)

\* fetch_dependency_license: the java branch inside `try`
java_license_body(dependency, env) ==
    IF ~HasColon(dependency) THEN Ret(Unknown, 0, 1)
    ELSE IF Raises(env.lic) THEN Exc(1, 1)
    ELSE IF ~Ok(env.lic) THEN Ret(Unknown, 1, 1)
    ELSE IF env.lic.license # Absent THEN Ret(env.lic.license, 1, 1)
    ELSE repo_license(env.lic.homepage, env.gh_hit, 1, 1)

\* fetch_dependency_license: the dotnet branch inside `try`, given the result doc of
\* its call of fetch_dependency_url; the packageinfo request has a try of its own
dotnet_license_body(doc, env) ==
    LET repo == check_github_repo_license(extract_github_repo_from_url(doc.value),
                                          env.gh_hit)
        before == doc.requests + repo.requests
        naps == 1 + doc.sleeps
    IN  IF repo.value # None THEN Ret(repo.value, before, naps)
        ELSE IF Raises(env.lic) THEN Exc(before + 1, naps)
        ELSE IF Ok(env.lic) /\ env.lic.license # Absent
        THEN Ret(env.lic.license, before + 1, naps)
        ELSE Ret(IF Ok(env.url) /\ env.url.license # Absent
                 THEN env.url.license ELSE Unknown,
                 before + 2, naps)

\* fetch_dependency_license(dependency, dep_type, version, dependency_map)
fetch_dependency_license(dependency, dep_type, version, dep_map, env) ==
    LET mapped == OverrideValue(dependency, dep_type, dep_map, "license")
    IN  IF mapped # "" THEN Ret(OverrideMarker \o mapped, 0, 0)
        ELSE IF dep_type = Str("python")
        THEN try_except(python_license_body(env), Unknown)
        ELSE IF dep_type = Str("javascript")
        THEN try_except(javascript_license_body(env), Unknown)
        ELSE IF dep_type = Str("java")
        THEN try_except(java_license_body(dependency, env), Unknown)
        ELSE IF dep_type = Str("dotnet")
        THEN try_except(
                 dotnet_license_body(
                     fetch_dependency_url(dependency, dep_type, version, dep_map, env), env),
                 Unknown)
        ELSE Ret(Unknown, 0, 1)

-----------------------------------------------------------------------------
(* Inputs of the analyser: the override file, the registry, the trees.     *)

Name(i, up) == [id |-> i, up |-> up, colon |-> TRUE]
\* a java dependency written without its group
PlainName(i) == [id |-> i, up |-> FALSE, colon |-> FALSE]
DocsUrl == "https://docs.example/manual"

Row(name, type, license, url) ==
    [dependency_name |-> name, dependency_type |-> type, version |-> "1.0",
     license |-> license, documentation_url |-> url]

\* one row for the first dependency or for the last one, in either spelling
RowCandidates ==
    {Row(Name(1, FALSE), Str("python"), l, u) : l \in {"", "MIT"}, u \in {"", DocsUrl}}
    \cup {Row(Name(1, TRUE), Cap("python"), "MIT", DocsUrl)}
    \cup {Row(Name(MaxDeps, FALSE), Str("python"), "MIT", u) : u \in {"", DocsUrl}}

MappingFiles ==
    {<<>>}
    \cup {<<r>> : r \in RowCandidates}
    \cup {<<Row(Name(1, TRUE), Cap("python"), "BSD", ""),
            Row(Name(1, FALSE), Str("python"), "MIT", DocsUrl)>>}

FullAnswer == [status |-> "ok", license |-> "MIT", homepage |-> HomeUrl]
RegistryStates ==
    {[resp |-> Failure("status_404"), gh_hit |-> 0],
     [resp |-> FullAnswer, gh_hit |-> 0],
     [resp |-> [status |-> "ok", license |-> "", homepage |-> HomeUrl], gh_hit |-> 0],
     [resp |-> [status |-> "ok", license |-> Absent, homepage |-> GithubUrl], gh_hit |-> 0]}

\* what the registry answers for a dependency: only the one with id 1 varies
RegistryAnswer(dep) == IF dep.id = 1 THEN registry.resp ELSE FullAnswer

Version(i) == IF i = 1 THEN "==2.0.1" ELSE "latest"
Deps(n, up) == [i \in 1..n |-> <<Name(i, up /\ i = 1), Version(i)>>]
Tree(e, n, up) == <<[dep_type |-> Str(e), deps |-> Deps(n, up)]>>

\* the results of the extractors for one repository
Trees ==
    {<<>>}
    \cup {Tree("python", n, FALSE) : n \in {0, 1, MaxDeps}}
    \cup {Tree("python", 1, TRUE)}
    \cup {Tree("python", MaxDeps, FALSE) \o Tree("dotnet", 1, FALSE)}

\* main(): repositories
repositories == [i \in 1..NumRepos |-> i]

NoRequests == [e \in Ecosystems |-> 0]
EmptyDict == [k \in {} |-> ""]

AnalyzerInit ==
    /\ mapping_file \in MappingFiles
    /\ registry \in RegistryStates
    /\ pc = "start"
    /\ repo_idx = 1
    /\ dependency_map = <<>>
    /\ repo_types = {}
    /\ dependencies = <<>>
    /\ type_idx = 1
    /\ count = 0
    /\ dependency_licenses = EmptyDict
    /\ dependency_urls = EmptyDict
    /\ results = <<>>
    /\ csv_rows = <<>>
    /\ md_rows = <<>>
    /\ missing_rows = <<>>
    /\ remote_requests = NoRequests
    /\ license_requests = 0
    /\ url_requests = 0
    /\ fetched = FALSE

AnalyzerIdle ==
    /\ mapping_file = <<>>
    /\ registry = [resp |-> FullAnswer, gh_hit |-> 0]
    /\ pc = "idle"
    /\ repo_idx = 1
    /\ dependency_map = <<>>
    /\ repo_types = {}
    /\ dependencies = <<>>
    /\ type_idx = 1
    /\ count = 0
    /\ dependency_licenses = EmptyDict
    /\ dependency_urls = EmptyDict
    /\ results = <<>>
    /\ csv_rows = <<>>
    /\ md_rows = <<>>
    /\ missing_rows = <<>>
    /\ remote_requests = NoRequests
    /\ license_requests = 0
    /\ url_requests = 0
    /\ fetched = FALSE

-----------------------------------------------------------------------------
(* process_repositories.                                                   *)

\* one of `git clone`, porcelain.clone and the second `git clone` ran and did not fail:
\* target_dir holds the tree
tree_cloned(git_ok, have_dulwich, dulwich_ok, url_differs, retry_ok) ==
    git_ok \/ (have_dulwich /\ dulwich_ok) \/ (url_differs /\ retry_ok)

\* a clone_repository that returns True whatever the attempts did
clone_always_true(git_ok, have_dulwich, dulwich_ok, url_differs, retry_ok) == TRUE

\* clone_repository(repo_url, target_dir): git, then dulwich, then the original URL
clone_repository(git_ok, have_dulwich, dulwich_ok, url_differs, retry_ok) ==
    git_ok \/ (have_dulwich /\ dulwich_ok) \/ (url_differs /\ retry_ok)

\* dependency_map = load_dependency_mapping(); keys normalised when it is not empty
LoadMapping ==
    /\ pc = "start"
    /\ LET loaded == load_dependency_mapping(mapping_file)
       IN  dependency_map' = IF loaded # <<>> THEN NormalizeMap(loaded) ELSE loaded
    /\ pc' = "clone"
    /\ UNCHANGED <<fetched, mapping_file,
                   registry, repo_idx, repo_types, dependencies, type_idx,
                   count, dependency_licenses, dependency_urls, results, csv_rows,
                   md_rows, missing_rows, remote_requests, license_requests, url_requests>>
    /\ UNCHANGED <<resolver_vars, infra_vars, extractor_vars, scan_vars>>

\* `if clone_repository(repo_url, repo_dir):` fails: the loop goes on to the next URL
CloneFails ==
    /\ pc = "clone"
    /\ repo_idx <= Len(repositories)
    /\ \E git_ok, have_dulwich, dulwich_ok, url_differs, retry_ok \in BOOLEAN :
          /\ ~clone_repository(git_ok, have_dulwich, dulwich_ok, url_differs, retry_ok)
          /\ fetched' = tree_cloned(git_ok, have_dulwich, dulwich_ok, url_differs, retry_ok)
    /\ repo_idx' = repo_idx + 1
    /\ UNCHANGED <<mapping_file,
                   registry, pc, dependency_map, repo_types, dependencies,
                   type_idx, count, dependency_licenses, dependency_urls, results,
                   csv_rows, md_rows, missing_rows, remote_requests, license_requests,
                   url_requests>>
    /\ UNCHANGED <<resolver_vars, infra_vars, extractor_vars, scan_vars>>

\* the clone succeeds; determine_repo_types and the extractors run
CloneAndExtract ==
    /\ pc = "clone"
    /\ repo_idx <= Len(repositories)
    /\ \E git_ok, have_dulwich, dulwich_ok, url_differs, retry_ok \in BOOLEAN :
          /\ clone_repository(git_ok, have_dulwich, dulwich_ok, url_differs, retry_ok)
          /\ fetched' = tree_cloned(git_ok, have_dulwich, dulwich_ok, url_differs, retry_ok)
    /\ \E tree \in Trees :
          /\ dependencies' = tree
          /\ repo_types' = {tree[i].dep_type.id : i \in 1..Len(tree)}
    /\ dependency_licenses' = EmptyDict
    /\ dependency_urls' = EmptyDict
    /\ type_idx' = 1
    /\ count' = 0
    /\ remote_requests' = NoRequests
    /\ pc' = "resolve"
    /\ UNCHANGED <<mapping_file,
                   registry, repo_idx, dependency_map, results, csv_rows,
                   md_rows, missing_rows, license_requests, url_requests>>
    /\ UNCHANGED <<resolver_vars, infra_vars, extractor_vars, scan_vars>>

CurrentType == dependencies[type_idx].dep_type
CurrentDeps == dependencies[type_idx].deps

\* the limit tested one pass too late
limit_reached_late(n) == n > ResolveCap

\* `if count >= 10:`
limit_reached(n) == n >= ResolveCap

\* one pass of `for dep, version in deps.items()` below the limit; an exception
\* leaving a fetch function would leave process_repositories and main
ResolveDep ==
    /\ pc = "resolve"
    /\ type_idx <= Len(dependencies)
    /\ count < Len(CurrentDeps)
    /\ ~limit_reached(count)
    /\ LET dep == CurrentDeps[count + 1][1]
           version == CurrentDeps[count + 1][2]
           env == [lic |-> RegistryAnswer(dep), url |-> RegistryAnswer(dep),
                   gh_hit |-> registry.gh_hit]
           license_key == Key(CurrentType, dep)
           lic == fetch_dependency_license(dep, CurrentType, version, dependency_map, env)
           url == fetch_dependency_url(dep, CurrentType, version, dependency_map, env)
       IN  /\ license_requests' = lic.requests
           /\ url_requests' = IF lic.raised THEN 0 ELSE url.requests
           /\ remote_requests' =
                 [remote_requests EXCEPT ![CurrentType.id] = @ + lic.requests + url_requests']
           /\ IF lic.raised \/ url.raised
              THEN /\ pc' = "crashed"
                   /\ UNCHANGED <<dependency_licenses, dependency_urls, count>>
              ELSE /\ dependency_licenses' = (license_key :> lic.value) @@ dependency_licenses
                   /\ dependency_urls' = (license_key :> url.value) @@ dependency_urls
                   /\ count' = count + 1
                   /\ pc' = pc
    /\ UNCHANGED <<fetched, mapping_file,
                   registry, repo_idx, dependency_map, repo_types,
                   dependencies, type_idx, results, csv_rows, md_rows, missing_rows>>
    /\ UNCHANGED <<resolver_vars, infra_vars, extractor_vars, scan_vars>>

\* `if count >= 10: ... break`
LimitReached ==
    /\ pc = "resolve"
    /\ type_idx <= Len(dependencies)
    /\ count < Len(CurrentDeps)
    /\ limit_reached(count)
    /\ type_idx' = type_idx + 1
    /\ count' = 0
    /\ UNCHANGED <<fetched, mapping_file,
                   registry, pc, repo_idx, dependency_map, repo_types,
                   dependencies, dependency_licenses, dependency_urls, results, csv_rows,
                   md_rows, missing_rows, remote_requests, license_requests, url_requests>>
    /\ UNCHANGED <<resolver_vars, infra_vars, extractor_vars, scan_vars>>

\* deps.items() is exhausted
DepsExhausted ==
    /\ pc = "resolve"
    /\ type_idx <= Len(dependencies)
    /\ count = Len(CurrentDeps)
    /\ type_idx' = type_idx + 1
    /\ count' = 0
    /\ UNCHANGED <<fetched, mapping_file,
                   registry, pc, repo_idx, dependency_map, repo_types,
                   dependencies, dependency_licenses, dependency_urls, results, csv_rows,
                   md_rows, missing_rows, remote_requests, license_requests, url_requests>>
    /\ UNCHANGED <<resolver_vars, infra_vars, extractor_vars, scan_vars>>

\* results.append({...})
AppendResult ==
    /\ pc = "resolve"
    /\ type_idx > Len(dependencies)
    /\ results' = Append(results,
                         [repository |-> repositories[repo_idx],
                          types |-> repo_types,
                          dependencies |-> dependencies,
                          dependency_licenses |-> dependency_licenses,
                          dependency_urls |-> dependency_urls])
    /\ repo_idx' = repo_idx + 1
    /\ pc' = "clone"
    /\ UNCHANGED <<fetched, mapping_file,
                   registry, dependency_map, repo_types, dependencies,
                   type_idx, count, dependency_licenses, dependency_urls, csv_rows,
                   md_rows, missing_rows, remote_requests, license_requests, url_requests>>
    /\ UNCHANGED <<resolver_vars, infra_vars, extractor_vars, scan_vars>>

\* the loop is over: the finally block, then `return results`
ReturnResults ==
    /\ pc = "clone"
    /\ repo_idx > Len(repositories)
    /\ pc' = "write_csv"
    /\ UNCHANGED <<fetched, mapping_file,
                   registry, repo_idx, dependency_map, repo_types,
                   dependencies, type_idx, count, dependency_licenses, dependency_urls,
                   results, csv_rows, md_rows, missing_rows, remote_requests,
                   license_requests, url_requests>>
    /\ UNCHANGED <<resolver_vars, infra_vars, extractor_vars, scan_vars>>

-----------------------------------------------------------------------------
(* The reports.                                                            *)

RECURSIVE Flatten(_)
Flatten(seqs) == IF seqs = <<>> THEN <<>> ELSE Head(seqs) \o Flatten(Tail(seqs))

\* the three nested loops over results, repo_result['dependencies'].items(), deps.items()
EntriesOf(res, r) ==
    Flatten([t \in 1..Len(res[r].dependencies) |->
              [d \in 1..Len(res[r].dependencies[t].deps) |->
                 [result |-> r,
                  dep_type |-> res[r].dependencies[t].dep_type,
                  dep |-> res[r].dependencies[t].deps[d][1],
                  version |-> res[r].dependencies[t].deps[d][2]]]])
Entries(res) == Flatten([r \in 1..Len(res) |-> EntriesOf(res, r)])

\* the row as process_repositories stored it, without the final override
CsvRowStored(res, normalized_map, e) ==
    LET dep_key == Key(e.dep_type, e.dep)
    IN  [Repository |-> res[e.result].repository,
         Result |-> e.result,
         Dependency |-> e.dep,
         DependencyType |-> e.dep_type,
         DependencyVersion |-> e.version,
         DependencyLicense |->
             PyStr(GetOr(res[e.result].dependency_licenses, dep_key, Unknown)),
         DocumentationURL |-> GetOr(res[e.result].dependency_urls, dep_key, "")]

\* the body of write_results_to_csv's innermost loop; csv.DictWriter writes str(value)
CsvRow(res, normalized_map, e) ==
    LET dep_key == Key(e.dep_type, e.dep)
        norm_key == Key(Lower(e.dep_type), Lower(e.dep))
        stored_license == GetOr(res[e.result].dependency_licenses, dep_key, Unknown)
        stored_url == GetOr(res[e.result].dependency_urls, dep_key, "")
        mapped == DictHas(normalized_map, norm_key)
        mapping == DictGet(normalized_map, norm_key)
    IN  [Repository |-> res[e.result].repository,
         Result |-> e.result,
         Dependency |-> e.dep,
         DependencyType |-> e.dep_type,
         DependencyVersion |-> e.version,
         DependencyLicense |-> IF mapped /\ mapping.license # ""
                               THEN OverrideMarker \o mapping.license
                               ELSE PyStr(stored_license),
         DocumentationURL |-> IF mapped /\ mapping.documentation_url # ""
                              THEN mapping.documentation_url ELSE stored_url]

\* rows only for the dependencies the resolver was called for
write_results_to_csv_resolved_only(res, file) ==
    LET normalized_map == NormalizeSplitMap(load_dependency_mapping(file))
        entries == SelectSeq(Entries(res),
                             LAMBDA e : Key(e.dep_type, e.dep)
                                           \in DOMAIN res[e.result].dependency_licenses)
    IN  [i \in 1..Len(entries) |-> CsvRow(res, normalized_map, entries[i])]

\* write_results_to_csv with the table process_repositories loaded
write_results_to_csv_loaded_table(res, file) ==
    LET entries == Entries(res)
    IN  [i \in 1..Len(entries) |-> CsvRow(res, dependency_map, entries[i])]

\* write_results_to_csv(results, output_file): the mapping file is loaded again
write_results_to_csv(res, file) ==
    LET normalized_map == NormalizeSplitMap(load_dependency_mapping(file))
        entries == Entries(res)
    IN  [i \in 1..Len(entries) |-> CsvRow(res, normalized_map, entries[i])]

\* generate_markdown_report(results, output_file): the table rows
generate_markdown_report(res, file) ==
    LET rows == write_results_to_csv(res, file)
    IN  [i \in 1..Len(rows) |->
           [Repository |-> rows[i].Repository,
            Result |-> rows[i].Result,
            Dependency |-> rows[i].Dependency,
            DependencyType |-> rows[i].DependencyType,
            Version |-> rows[i].DependencyVersion,
            License |-> rows[i].DependencyLicense,
            Documentation |-> IF rows[i].DocumentationURL # ""
                              THEN rows[i].DocumentationURL ELSE "N/A"]]

\* dep_url.startswith('https://www.google.com/search')
IsGoogleSearch(url) == url = GoogleSearch

\* only the URL is looked at
IsMissingUrlOnly(dep_license, dep_url) == dep_url = "" \/ IsGoogleSearch(dep_url)

\* `if dep_license == 'Unknown' or not dep_url or dep_url.startswith(...)`
IsMissing(dep_license, dep_url) ==
    dep_license = Unknown \/ dep_url = "" \/ IsGoogleSearch(dep_url)

RECURSIVE CollectUnknown(_, _, _)
CollectUnknown(res, entries, unknown_deps) ==
    IF entries = <<>> THEN unknown_deps
    ELSE LET e == Head(entries)
             dep_key == Key(e.dep_type, e.dep)
             dep_license == GetOr(res[e.result].dependency_licenses, dep_key, Unknown)
             dep_url == GetOr(res[e.result].dependency_urls, dep_key, "")
             dep_info == [dependency_name |-> e.dep,
                          dependency_type |-> e.dep_type,
                          version |-> e.version,
                          license |-> IF dep_license = Unknown THEN ""
                                      ELSE PyStr(dep_license),
                          documentation_url |-> IF IsGoogleSearch(dep_url) THEN ""
                                                ELSE dep_url]
         IN  CollectUnknown(res, Tail(entries),
                 IF IsMissing(dep_license, dep_url) /\ ~DictHas(unknown_deps, dep_key)
                 THEN DictPut(unknown_deps, dep_key, dep_info)
                 ELSE unknown_deps)

\* generate_missing_dependency_mapping(results, output_file): unknown_deps.values()
generate_missing_dependency_mapping(res) ==
    LET unknown_deps == CollectUnknown(res, Entries(res), <<>>)
    IN  [i \in 1..Len(unknown_deps) |-> unknown_deps[i][2]]

\* what dependency_mapping.csv holds after somebody edits it during the run
EditedFile == <<Row(Name(1, FALSE), Str("python"), "Apache-2.0", "")>>

\* dependency_mapping.csv is rewritten on disk after process_repositories has returned
\* and before main() writes the reports
MappingFileEdited ==
    /\ pc = "write_csv"
    /\ mapping_file # EditedFile
    /\ mapping_file' = EditedFile
    /\ UNCHANGED <<fetched, registry, pc, repo_idx, dependency_map, repo_types,
                   dependencies, type_idx, count, dependency_licenses, dependency_urls,
                   results, csv_rows, md_rows, missing_rows, remote_requests,
                   license_requests, url_requests>>
    /\ UNCHANGED <<resolver_vars, infra_vars, extractor_vars, scan_vars>>

\* main(): write_results_to_csv(results, csv_output)
WriteResultsToCsv ==
    /\ pc = "write_csv"
    /\ csv_rows' = write_results_to_csv(results, mapping_file)
    /\ pc' = "write_md"
    /\ UNCHANGED <<fetched, mapping_file,
                   registry, repo_idx, dependency_map, repo_types,
                   dependencies, type_idx, count, dependency_licenses, dependency_urls,
                   results, md_rows, missing_rows, remote_requests, license_requests,
                   url_requests>>
    /\ UNCHANGED <<resolver_vars, infra_vars, extractor_vars, scan_vars>>

\* main(): generate_markdown_report(results, md_output)
GenerateMarkdownReport ==
    /\ pc = "write_md"
    /\ md_rows' = generate_markdown_report(results, mapping_file)
    /\ pc' = "write_missing"
    /\ UNCHANGED <<fetched, mapping_file,
                   registry, repo_idx, dependency_map, repo_types,
                   dependencies, type_idx, count, dependency_licenses, dependency_urls,
                   results, csv_rows, missing_rows, remote_requests, license_requests,
                   url_requests>>
    /\ UNCHANGED <<resolver_vars, infra_vars, extractor_vars, scan_vars>>

\* main(): generate_missing_dependency_mapping(results, missing_mapping_output)
GenerateMissingDependencyMapping ==
    /\ pc = "write_missing"
    /\ missing_rows' = generate_missing_dependency_mapping(results)
    /\ pc' = "done"
    /\ UNCHANGED <<fetched, mapping_file,
                   registry, repo_idx, dependency_map, repo_types,
                   dependencies, type_idx, count, dependency_licenses, dependency_urls,
                   results, csv_rows, md_rows, remote_requests, license_requests,
                   url_requests>>
    /\ UNCHANGED <<resolver_vars, infra_vars, extractor_vars, scan_vars>>

AnalyzerNext ==
    \/ LoadMapping
    \/ CloneFails
    \/ CloneAndExtract
    \/ ResolveDep
    \/ LimitReached
    \/ DepsExhausted
    \/ AppendResult
    \/ ReturnResults
    \/ MappingFileEdited
    \/ WriteResultsToCsv
    \/ GenerateMarkdownReport
    \/ GenerateMissingDependencyMapping

-----------------------------------------------------------------------------
(* Placeholders of the other two programs while the analyser runs.         *)

ResolverIdle == r_in = [state |-> "idle"] /\ r_out = [state |-> "idle"]

\* infrastructure_report.md does not exist
NoReportFile == [exists |-> FALSE, sections |-> <<>>, complete |-> FALSE]

InfraIdle ==
    /\ repos = <<>>
    /\ main_pc = "idle"
    /\ task_pc = <<>>
    /\ repo_semaphore = 0
    /\ work_dir = <<>>
    /\ task_result = <<>>
    /\ gathered = <<>>
    /\ successful_reports = <<>>
    /\ md_report = NoReportFile
    /\ out_of_order = FALSE

ExtractorIdle == repo_dir = <<>> /\ extract_pc = "idle" /\ extract_raised = FALSE

\* analyze_repository is not scanning a tree
ScanIdle ==
    /\ repo_path = <<>>
    /\ yaml = TRUE
    /\ scan_pc = "idle"
    /\ file_idx = 1
    /\ found_resources = <<>>
    /\ workflow_files = <<>>
    /\ resources = <<>>

Init == AnalyzerInit /\ ResolverIdle /\ InfraIdle /\ ExtractorIdle /\ ScanIdle
Next == AnalyzerNext
Spec == Init /\ [][Next]_vars

-----------------------------------------------------------------------------
(* The resolver as a function of its arguments and of the remote answers.  *)

ResolverFiles(dep_type) ==
    {<<>>}
    \cup {<<Row(Name(1, FALSE), t, l, u)>> :
            t \in {dep_type, Cap(dep_type.id)}, l \in {"", "MIT"}, u \in {"", DocsUrl}}

\* a dep_type none of the branches knows
OtherType == "ruby"

Envs == [lic : Responses, url : Responses, gh_hit : {0, 1}]

ResolverInit ==
    /\ \E dependency \in {Name(1, FALSE), Name(1, TRUE), PlainName(1)},
          e \in Ecosystems \cup {OtherType}, env \in Envs :
          \E file \in ResolverFiles(Str(e)) :
             r_in = [state |-> "ready", dependency |-> dependency, dep_type |-> Str(e),
                     version |-> "latest", file |-> file, env |-> env]
    /\ r_out = [state |-> "idle"]
    /\ AnalyzerIdle
    /\ InfraIdle
    /\ ExtractorIdle
    /\ ScanIdle

\* process_repositories' two calls for one dependency, with the table it would load
Resolve ==
    /\ r_in.state = "ready"
    /\ r_out.state = "idle"
    /\ LET loaded == load_dependency_mapping(r_in.file)
           dep_map == IF loaded # <<>> THEN NormalizeMap(loaded) ELSE loaded
       IN  r_out' = [state |-> "done",
                     license |-> fetch_dependency_license(r_in.dependency, r_in.dep_type,
                                                          r_in.version, dep_map, r_in.env),
                     url |-> fetch_dependency_url(r_in.dependency, r_in.dep_type,
                                                  r_in.version, dep_map, r_in.env)]
    /\ UNCHANGED <<r_in, analyzer_vars, infra_vars, extractor_vars, scan_vars>>

ResolverNext == Resolve
SpecResolver == ResolverInit /\ [][ResolverNext]_vars

-----------------------------------------------------------------------------
(* infrastructure.py: main() and the constrained_analyzer tasks.  A task   *)
(* runs without interruption between two awaits: from acquiring the        *)
(* semaphore to the start of `git clone`, and from the end of the clone to *)
(* the release of the semaphore.                                           *)

Tasks == 1..Len(repos)

\* repo_url.split('/')[-1]
RepoName(url) == url.name

NoResult == [kind |-> "none"]
Report(url, tree) == [kind |-> "report", url |-> url, name |-> RepoName(url), tree |-> tree]
\* an exception object; RuntimeError(f"Failed to clone {repo_url}") names the URL
Raised(error) == [kind |-> "exception", error |-> error]
FailedToClone(url) == [msg |-> "Failed to clone", url |-> url]
AnalysisError == [msg |-> "analysis"]
IsException(r) == r.kind = "exception"

\* load_repositories(REPOS_FILE): the second line may end in the same name as the
\* first, be the same URL again, or end in the name of the last line (the names are
\* then not in alphabetical order)
\* the second line of repos.txt: a URL of its own, the first URL's name under another
\* owner, the first URL again, the last URL's name
SecondUrls(num) ==
    {[owner |-> 2, name |-> 2], [owner |-> 2, name |-> 1],
     [owner |-> 1, name |-> 1], [owner |-> 2, name |-> num]}

InfraInitFrom(num, seconds) ==
    /\ \E second \in seconds :
          repos = [i \in 1..num |->
                     IF i = 2 THEN second ELSE [owner |-> i, name |-> i]]
    /\ main_pc = "gather"
    /\ task_pc = [i \in 1..num |-> "waiting"]
    /\ repo_semaphore = MAX_CONCURRENT_REPOS
    /\ work_dir = [d \in 1..num |-> [state |-> "absent", owner |-> 0]]
    /\ task_result = [i \in 1..num |-> NoResult]
    /\ gathered = <<>>
    /\ successful_reports = <<>>
    /\ md_report = NoReportFile
    /\ out_of_order = FALSE
    /\ AnalyzerIdle
    /\ ResolverIdle
    /\ ExtractorIdle
    /\ ScanIdle

InfraInitOf(num) == InfraInitFrom(num, SecondUrls(num))

InfraInit == InfraInitOf(NumInfraRepos)

\* a semaphore that never makes a task wait
acquire_unbounded(permits) == TRUE

\* `async with repo_semaphore`: a task enters only while a permit is free
acquire(permits) == permits > 0

\* a permit that is never given back
release_never(permits) == permits

\* `async with repo_semaphore:` is left, by return or by exception
release(permits) == permits + 1

\* async with repo_semaphore; clone_repo: target_dir is new, mkdir, git clone starts
StartClone(i) ==
    /\ main_pc = "gather"
    /\ task_pc[i] = "waiting"
    /\ acquire(repo_semaphore)
    /\ work_dir[RepoName(repos[i])].state = "absent"
    /\ repo_semaphore' = repo_semaphore - 1
    /\ work_dir' = [work_dir EXCEPT ![RepoName(repos[i])] =
                       [state |-> "populating", owner |-> repos[i].owner]]
    /\ task_pc' = [task_pc EXCEPT ![i] = "cloning"]
    /\ UNCHANGED <<repos, main_pc, task_result, gathered, successful_reports, md_report,
                   out_of_order>>
    /\ UNCHANGED <<analyzer_vars, resolver_vars, extractor_vars, scan_vars>>

\* async with repo_semaphore; clone_repo: `if target_dir.exists(): return True`, and
\* the rest of analyze_repository, which has no await
AnalyzeExistingDir(i) ==
    /\ main_pc = "gather"
    /\ task_pc[i] = "waiting"
    /\ acquire(repo_semaphore)
    /\ work_dir[RepoName(repos[i])].state # "absent"
    /\ \E fails \in BOOLEAN :
          task_result' = [task_result EXCEPT ![i] =
                             IF fails THEN Raised(AnalysisError)
                             ELSE Report(repos[i], work_dir[RepoName(repos[i])])]
    /\ task_pc' = [task_pc EXCEPT ![i] = "done"]
    /\ out_of_order' = (out_of_order \/ \E j \in 1..(i - 1) : task_pc[j] # "done")
    /\ UNCHANGED <<repos, main_pc, repo_semaphore, work_dir, gathered, successful_reports,
                   md_report>>
    /\ UNCHANGED <<analyzer_vars, resolver_vars, extractor_vars, scan_vars>>

\* git clone ends with returncode 0; the rest of analyze_repository; the semaphore
\* is released
CloneDoneAnalyze(i) ==
    /\ main_pc = "gather"
    /\ task_pc[i] = "cloning"
    /\ LET tree == [state |-> "complete", owner |-> repos[i].owner]
       IN  /\ work_dir' = [work_dir EXCEPT ![RepoName(repos[i])] = tree]
           /\ \E fails \in BOOLEAN :
                 task_result' = [task_result EXCEPT ![i] =
                                    IF fails THEN Raised(AnalysisError)
                                    ELSE Report(repos[i], tree)]
    /\ repo_semaphore' = release(repo_semaphore)
    /\ task_pc' = [task_pc EXCEPT ![i] = "done"]
    /\ out_of_order' = (out_of_order \/ \E j \in 1..(i - 1) : task_pc[j] # "done")
    /\ UNCHANGED <<repos, main_pc, gathered, successful_reports, md_report>>
    /\ UNCHANGED <<analyzer_vars, resolver_vars, extractor_vars, scan_vars>>

\* git clone ends with another returncode: raise RuntimeError(f"Failed to clone ...")
CloneError(i) ==
    /\ main_pc = "gather"
    /\ task_pc[i] = "cloning"
    /\ work_dir' = [work_dir EXCEPT ![RepoName(repos[i])] =
                       [state |-> "failed", owner |-> repos[i].owner]]
    /\ task_result' = [task_result EXCEPT ![i] = Raised(FailedToClone(repos[i]))]
    /\ repo_semaphore' = release(repo_semaphore)
    /\ task_pc' = [task_pc EXCEPT ![i] = "done"]
    /\ out_of_order' = (out_of_order \/ \E j \in 1..(i - 1) : task_pc[j] # "done")
    /\ UNCHANGED <<repos, main_pc, gathered, successful_reports, md_report>>
    /\ UNCHANGED <<analyzer_vars, resolver_vars, extractor_vars, scan_vars>>

\* the results in an order that follows the completion of the tasks: the first
\* task's result comes last when the tasks did not finish in the order of `tasks`
gather_as_completed(task_results, reordered) ==
    [raised |-> FALSE,
     values |-> IF reordered THEN Tail(task_results) \o <<Head(task_results)>>
                ELSE task_results]

\* gather without return_exceptions: the first exception reaches the caller
gather_propagates(task_results, reordered) ==
    IF \E i \in 1..Len(task_results) : IsException(task_results[i])
    THEN [raised |-> TRUE, values |-> <<>>]
    ELSE [raised |-> FALSE, values |-> task_results]

\* asyncio.gather(*tasks, return_exceptions=True): the results in the order of `tasks`
gather(task_results, reordered) == [raised |-> FALSE, values |-> task_results]

\* results = await asyncio.gather(...): every task has finished
Gather ==
    /\ main_pc = "gather"
    /\ \A i \in Tasks : task_pc[i] = "done"
    /\ LET g == gather(task_result, out_of_order)
       IN  IF g.raised
           THEN /\ main_pc' = "finally_raising"
                /\ UNCHANGED gathered
           ELSE /\ main_pc' = "report"
                /\ gathered' = g.values
    /\ UNCHANGED <<repos, task_pc, repo_semaphore, work_dir, task_result,
                   successful_reports, md_report, out_of_order>>
    /\ UNCHANGED <<analyzer_vars, resolver_vars, extractor_vars, scan_vars>>

RECURSIVE FilterReports(_)

\* every result kept
KeepAll(rs) == rs

\* [r for r in results if not isinstance(r, Exception)]
FilterReports(rs) ==
    IF rs = <<>> THEN <<>>
    ELSE IF IsException(Head(rs)) THEN FilterReports(Tail(rs))
    ELSE <<Head(rs)>> \o FilterReports(Tail(rs))

\* sorted(reports, key=lambda r: r.name): a stable sort
RECURSIVE sorted_by_name(_)
sorted_by_name(reports) ==
    IF reports = <<>> THEN <<>>
    ELSE LET least == CHOOSE i \in 1..Len(reports) :
                         /\ \A j \in 1..Len(reports) : reports[i].name <= reports[j].name
                         /\ \A j \in 1..(i - 1) : reports[j].name # reports[i].name
         IN  <<reports[least]>>
                \o sorted_by_name([k \in 1..(Len(reports) - 1) |->
                                     IF k < least THEN reports[k] ELSE reports[k + 1]])

\* write_md_report(reports, filename): open(filename, 'w') and the sections of
\* "Repository Details", written one after the other; `written` sections are in the
\* file when the function returns or raises; an element that is no RepoReport makes
\* `r.service_interactions` raise before the first section
write_md_report(reports, written) ==
    IF \E i \in 1..Len(reports) : IsException(reports[i])
    THEN [exists |-> TRUE, sections |-> <<>>, complete |-> FALSE]
    ELSE [exists |-> TRUE,
          sections |-> SubSeq(sorted_by_name(reports), 1, written),
          complete |-> written = Len(reports)]

\* the report written even for an empty list
always_written(reports) == TRUE

\* `if successful_reports:`
has_reports(reports) == reports # <<>>

\* successful_reports = [...]; if successful_reports: write_md_report(...), which
\* returns, or raises while it writes (an azure.md that cannot be decoded, a workflow
\* whose job names are not strings, an I/O error); of the places where it can raise
\* the model takes the last section
WriteMdReport ==
    /\ main_pc = "report"
    /\ successful_reports' = FilterReports(gathered)
    /\ IF has_reports(successful_reports')
       THEN \E written \in {Len(successful_reports') - 1, Len(successful_reports')} :
               /\ md_report' = write_md_report(successful_reports', written)
               /\ main_pc' = IF md_report'.complete THEN "finally" ELSE "finally_raising"
       ELSE /\ md_report' = md_report
            /\ main_pc' = "finally"
    /\ out_of_order' = out_of_order
    /\ UNCHANGED <<repos, task_pc, repo_semaphore, work_dir, task_result, gathered>>
    /\ UNCHANGED <<analyzer_vars, resolver_vars, extractor_vars, scan_vars>>

\* on_rm_error(func, path, exc_info): os.chmod(path, stat.S_IWRITE); func(path)
on_rm_error(retry_ok) == [raised |-> ~retry_ok]

\* shutil.rmtree(temp_dir, onerror=on_rm_error): an entry that cannot be removed is
\* handed to on_rm_error, and what on_rm_error raises leaves rmtree
rmtree(removable, retry_ok) ==
    IF removable THEN [raised |-> FALSE] ELSE on_rm_error(retry_ok)

\* `finally: if temp_dir.exists(): shutil.rmtree(temp_dir, onerror=on_rm_error)`;
\* an exception of rmtree replaces the one the try block may have raised
InfraCleanup ==
    /\ main_pc \in {"finally", "finally_raising"}
    /\ \E removable, retry_ok \in BOOLEAN :
          IF rmtree(removable, retry_ok).raised
          THEN /\ work_dir' = work_dir
               /\ main_pc' = "cleanup_raised"
          ELSE /\ work_dir' = [n \in DOMAIN work_dir |-> [state |-> "absent", owner |-> 0]]
               /\ main_pc' = IF main_pc = "finally" THEN "done" ELSE "raised"
    /\ UNCHANGED <<repos, task_pc, repo_semaphore, task_result, gathered,
                   successful_reports, md_report, out_of_order>>
    /\ UNCHANGED <<analyzer_vars, resolver_vars, extractor_vars, scan_vars>>

InfraNext ==
    \/ \E i \in Tasks : StartClone(i)
    \/ \E i \in Tasks : AnalyzeExistingDir(i)
    \/ \E i \in Tasks : CloneDoneAnalyze(i)
    \/ \E i \in Tasks : CloneError(i)
    \/ Gather
    \/ WriteMdReport
    \/ InfraCleanup

SpecInfra == InfraInit /\ [][InfraNext]_vars

\* the event loop runs a task that can run, `git clone` ends, and main goes on once
\* gather has its results
SpecInfraFair == InfraInitOf(NumFairRepos) /\ [][InfraNext]_vars /\ WF_vars(InfraNext)

\* one repository more than there are permits
NumBlockedRepos == MAX_CONCURRENT_REPOS + 1

\* the same scheduling for a list that makes a task wait for a permit; every URL has
\* a name of its own, or the second line repeats the first
SpecInfraBlocked ==
    /\ InfraInitFrom(NumBlockedRepos, {[owner |-> 2, name |-> 2], [owner |-> 1, name |-> 1]})
    /\ [][InfraNext]_vars
    /\ WF_vars(InfraNext)

-----------------------------------------------------------------------------
(* determine_repo_types and the four extractors.  A tree is the sequence   *)
(* of its files in the order os.walk / Path.glob visits them.  A file has  *)
(* a name, a state (what open() and the parser make of it) and the         *)
(* declarations it holds: `entries`, and `dev` for the devDependencies of  *)
(* a package.json.  A declaration is [dep, version, shape].                *)

\* largest number of files in a tree
MaxFiles == 2

\* a declaration without version clause, element, attribute or key
NoVersion == "<no version>"
Latest == "latest"
DetectedFromImport == "detected-from-import"

Decl(dep, version, shape) == [dep |-> dep, version |-> version, shape |-> shape]
File(name, state, entries, dev) ==
    [name |-> name, state |-> state, entries |-> entries, dev |-> dev]

\* find_files(repo_dir, filename): the walk's order
find_files(tree, filename) == SelectSeq(tree, LAMBDA f : f.name = filename)

Extension(name) ==
    CASE name \in {"setup.py", "main.py"} -> ".py"
      [] name = "index.js" -> ".js"
      [] name = "Main.java" -> ".java"
      [] name = "Program.cs" -> ".cs"
      [] name = "App.csproj" -> ".csproj"
      [] OTHER -> ""

\* Path(repo_dir).glob('**/*<extension>')
glob(tree, extension) == SelectSeq(tree, LAMBDA f : Extension(f.name) = extension)

\* determine_repo_types(repo_dir)
determine_repo_types(tree) ==
    LET python_files == glob(tree, ".py")
        python_dep_files == find_files(tree, "requirements.txt") \o find_files(tree, "setup.py")
        js_files == glob(tree, ".js") \o glob(tree, ".jsx") \o glob(tree, ".ts")
                       \o glob(tree, ".tsx")
        js_dep_files == find_files(tree, "package.json")
        java_files == glob(tree, ".java")
        java_dep_files == find_files(tree, "pom.xml") \o find_files(tree, "build.gradle")
        cs_files == glob(tree, ".cs")
        csproj_files == glob(tree, ".csproj")
        sln_files == glob(tree, ".sln")
        packages_config_files == find_files(tree, "packages.config")
    IN  (IF python_files # <<>> \/ python_dep_files # <<>> THEN {"python"} ELSE {})
        \cup (IF js_files # <<>> \/ js_dep_files # <<>> THEN {"javascript"} ELSE {})
        \cup (IF java_files # <<>> \/ java_dep_files # <<>> THEN {"java"} ELSE {})
        \cup (IF cs_files # <<>> \/ csproj_files # <<>> \/ sln_files # <<>>
                 \/ packages_config_files # <<>>
              THEN {"dotnet"} ELSE {})

\* what the body of a per-file `try:` did: the dict as it left it, and whether it raised
Done_(deps) == [deps |-> deps, raised |-> FALSE]
Raise_(deps) == [deps |-> deps, raised |-> TRUE]

\* the exception leaves the extractor
file_no_try(outcome) == outcome

\* try: ... except Exception as e: print(...): the loop goes on with the next file
file_try(outcome) == [outcome EXCEPT !.raised = FALSE]

\* `version or 'latest'`
OrLatest(version) == IF version \in {NoVersion, ""} THEN Latest ELSE version

\* requirements.txt, install_requires, dependencies = [...]:
\* `version = version.strip() if version else 'latest'; dependencies[package] = version`
RECURSIVE python_lines(_, _)
python_lines(entries, deps) ==
    IF entries = <<>> THEN deps
    ELSE python_lines(Tail(entries),
                      DictPut(deps, Head(entries).dep, OrLatest(Head(entries).version)))

python_file_body(f, deps) ==
    IF f.state = "ok" THEN Done_(python_lines(f.entries, deps)) ELSE Raise_(deps)

\* dict.update(section): the values as the file gives them
RECURSIVE update(_, _)
update(deps, entries) ==
    IF entries = <<>> THEN deps
    ELSE update(DictPut(deps, Head(entries).dep, Head(entries).version), Tail(entries))

\* devDependencies applied first
js_file_body_dev_first(f, deps) ==
    IF f.state = "unreadable" THEN Raise_(deps)
    ELSE IF f.state = "bad_dev" THEN Raise_(deps)
         ELSE Done_(update(update(deps, f.dev), f.entries))

\* json.load, update with 'dependencies', then update with 'devDependencies'
js_file_body(f, deps) ==
    IF f.state = "unreadable" THEN Raise_(deps)
    ELSE LET regular == update(deps, f.entries)
         IN  IF f.state = "bad_dev" THEN Raise_(regular)
             ELSE Done_(update(regular, f.dev))

\* pom.xml: dependencies[f"{group_id}:{artifact_id}"] = version or 'latest'
RECURSIVE pom_dependencies(_, _)
pom_dependencies(entries, deps) ==
    IF entries = <<>> THEN deps
    ELSE pom_dependencies(Tail(entries),
                          DictPut(deps, Head(entries).dep, OrLatest(Head(entries).version)))

pom_file_body(f, deps) ==
    IF f.state = "ok" THEN Done_(pom_dependencies(f.entries, deps)) ELSE Raise_(deps)

\* one match of a dep_pattern: the simple shape 'g:a:v' or 'g:a', or the
\* group/name shape, whose fourth group is '' when `version:` is omitted
gradle_match(e) ==
    IF e.shape = "simple"
    THEN IF e.version # NoVersion THEN e.version ELSE Latest
    ELSE IF e.version # NoVersion THEN e.version ELSE ""

RECURSIVE gradle_matches(_, _)
gradle_matches(entries, deps) ==
    IF entries = <<>> THEN deps
    ELSE gradle_matches(Tail(entries),
                        DictPut(deps, Head(entries).dep, gradle_match(Head(entries))))

\* `for pattern in dep_patterns`: the simple patterns before the group/name pattern
gradle_file_body(f, deps) ==
    IF f.state = "ok"
    THEN Done_(gradle_matches(SelectSeq(f.entries, LAMBDA e : e.shape = "simple")
                                 \o SelectSeq(f.entries, LAMBDA e : e.shape # "simple"),
                              deps))
    ELSE Raise_(deps)

\* .csproj and packages.config: ET.fromstring, or the regex fallback after a
\* ParseError, which sees only references with a non-empty version attribute
RECURSIVE xml_references(_, _, _)
xml_references(entries, deps, fallback) ==
    IF entries = <<>> THEN deps
    ELSE LET e == Head(entries)
         IN  xml_references(Tail(entries),
                 IF fallback
                 THEN IF e.version \in {NoVersion, ""} THEN deps
                      ELSE DictPut(deps, e.dep, e.version)
                 ELSE DictPut(deps, e.dep, OrLatest(e.version)),
                 fallback)

dotnet_xml_body(f, deps) ==
    IF f.state = "unreadable" THEN Raise_(deps)
    ELSE Done_(xml_references(f.entries, deps, f.state = "parse_error"))

\* project.json: a string version as it is, a dict's 'version', otherwise 'latest'
RECURSIVE project_json_items(_, _)
project_json_items(entries, deps) ==
    IF entries = <<>> THEN deps
    ELSE LET e == Head(entries)
             version == IF e.shape = "str" THEN e.version
                        ELSE IF e.shape = "dict" /\ e.version # NoVersion THEN e.version
                        ELSE Latest
         IN  project_json_items(Tail(entries), DictPut(deps, e.dep, version))

project_json_body(f, deps) ==
    IF f.state = "ok" THEN Done_(project_json_items(f.entries, deps)) ELSE Raise_(deps)

\* the body of the `try:` of the loop that reads file f
file_body(f, deps) ==
    CASE f.name \in {"requirements.txt", "setup.py", "pyproject.toml"} ->
             python_file_body(f, deps)
      [] f.name = "package.json" -> js_file_body(f, deps)
      [] f.name = "pom.xml" -> pom_file_body(f, deps)
      [] f.name = "build.gradle" -> gradle_file_body(f, deps)
      [] f.name \in {"App.csproj", "packages.config"} -> dotnet_xml_body(f, deps)
      [] f.name = "project.json" -> project_json_body(f, deps)
      [] OTHER -> Done_(deps)

\* `for file in ...: try: ... except ...` over the files in visiting order
RECURSIVE parse_files(_, _)
parse_files(files, acc) ==
    IF files = <<>> \/ acc.raised THEN acc
    ELSE parse_files(Tail(files), file_try(file_body(Head(files), acc.deps)))

\* extract_python_dependencies(repo_dir)
extract_python_dependencies(tree) ==
    parse_files(find_files(tree, "requirements.txt") \o find_files(tree, "setup.py")
                   \o find_files(tree, "pyproject.toml"),
                Done_(<<>>))

\* extract_js_dependencies(repo_dir)
extract_js_dependencies(tree) == parse_files(find_files(tree, "package.json"), Done_(<<>>))

\* the artifacts package_to_artifact gives for the imports of the readable .java files
imported_artifacts(tree) ==
    LET java_files == glob(tree, ".java")
    IN  UNION {{java_files[i].entries[j].dep : j \in 1..Len(java_files[i].entries)} :
                 i \in {k \in 1..Len(java_files) : java_files[k].state = "ok"}}

RECURSIVE add_imports_overwriting(_, _)
\* every imported artifact is recorded, declared or not
add_imports_overwriting(artifacts, deps) ==
    IF artifacts = {} THEN deps
    ELSE LET a == CHOOSE x \in artifacts : TRUE
         IN  add_imports_overwriting(artifacts \ {a}, DictPut(deps, a, DetectedFromImport))

\* `if dep_name not in dependencies: dependencies[dep_name] = 'detected-from-import'`
RECURSIVE add_imports(_, _)
add_imports(artifacts, deps) ==
    IF artifacts = {} THEN deps
    ELSE LET a == CHOOSE x \in artifacts : TRUE
         IN  add_imports(artifacts \ {a},
                         IF DictHas(deps, a) THEN deps
                         ELSE DictPut(deps, a, DetectedFromImport))

\* extract_java_dependencies(repo_dir)
extract_java_dependencies(tree) ==
    LET declared == parse_files(find_files(tree, "pom.xml") \o find_files(tree, "build.gradle"),
                                Done_(<<>>))
    IN  IF declared.raised THEN declared
        ELSE Done_(add_imports(imported_artifacts(tree), declared.deps))

\* extract_dotnet_dependencies(repo_dir)
extract_dotnet_dependencies(tree) ==
    parse_files(glob(tree, ".csproj") \o find_files(tree, "packages.config")
                   \o find_files(tree, "project.json"),
                Done_(<<>>))

extract(e, tree) ==
    CASE e = "python" -> extract_python_dependencies(tree)
      [] e = "javascript" -> extract_js_dependencies(tree)
      [] e = "java" -> extract_java_dependencies(tree)
      [] e = "dotnet" -> extract_dotnet_dependencies(tree)

\* the files a cloned tree may hold
JavaDep == "org.slf4j:slf4j-api"
One(dep, version, shape) == <<Decl(dep, version, shape)>>

PythonFiles ==
    {File("requirements.txt", "unreadable", <<>>, <<>>)}
    \cup {File("requirements.txt", "ok", One("a", v, "line"), <<>>) :
            v \in {NoVersion, "==1.0", "==2.0"}}
    \cup {File("requirements.txt", "ok", One("b", "==1.0", "line"), <<>>),
          File("setup.py", "ok", One("a", "==1.0", "line"), <<>>),
          File("setup.py", "ok", One("a", NoVersion, "line"), <<>>),
          File("pyproject.toml", "unreadable", <<>>, <<>>),
          File("pyproject.toml", "ok", One("a", "==2.0", "line"), <<>>),
          File("pyproject.toml", "ok", One("b", NoVersion, "line"), <<>>),
          File("main.py", "ok", <<>>, <<>>)}

JsFiles ==
    {File("package.json", "unreadable", <<>>, <<>>),
     File("package.json", "ok", One("a", "1.0", "str"), <<>>),
     File("package.json", "ok", One("a", "1.0", "str"), One("a", "2.0", "str")),
     File("package.json", "ok", One("a", "", "str"), <<>>),
     File("package.json", "ok", <<>>, One("a", "2.0", "str")),
     File("package.json", "bad_dev", One("b", "1.0", "str"), <<>>),
     File("index.js", "ok", <<>>, <<>>)}

JavaFiles ==
    {File("pom.xml", "unreadable", <<>>, <<>>),
     File("pom.xml", "ok", One(JavaDep, NoVersion, "element"), <<>>),
     File("pom.xml", "ok", One(JavaDep, "1.0", "element"), <<>>),
     File("build.gradle", "unreadable", <<>>, <<>>),
     File("Main.java", "ok", One(JavaDep, NoVersion, "import"), <<>>),
     File("Main.java", "unreadable", <<>>, <<>>)}
    \cup {File("build.gradle", "ok", One(JavaDep, v, shape), <<>>) :
            v \in {NoVersion, "2.0"}, shape \in {"simple", "group_name"}}

DotnetFiles ==
    {File("App.csproj", "unreadable", <<>>, <<>>),
     File("App.csproj", "parse_error", One("a", "1.0", "attribute"), <<>>),
     File("App.csproj", "ok", One("a", NoVersion, "attribute"), <<>>),
     File("App.csproj", "ok", One("a", "1.0", "attribute"), <<>>),
     File("packages.config", "ok", One("b", "1.0", "attribute"), <<>>),
     File("packages.config", "parse_error", One("b", NoVersion, "attribute"), <<>>),
     File("project.json", "unreadable", <<>>, <<>>),
     File("Program.cs", "ok", <<>>, <<>>)}
    \cup {File("project.json", "ok", One("a", v, shape), <<>>) :
            v \in {"1.0", ""}, shape \in {"str"}}
    \cup {File("project.json", "ok", One("a", v, "dict"), <<>>) : v \in {"2.0", NoVersion}}

Files == PythonFiles \cup JsFiles \cup JavaFiles \cup DotnetFiles

RepoDirs == UNION {[1..n -> Files] : n \in 0..MaxFiles}

ExtractorInit ==
    /\ repo_dir \in RepoDirs
    /\ extract_pc = "types"
    /\ extract_raised = FALSE
    /\ mapping_file = <<>>
    /\ registry = [resp |-> FullAnswer, gh_hit |-> 0]
    /\ pc = "idle"
    /\ repo_idx = 1
    /\ dependency_map = <<>>
    /\ repo_types = {}
    /\ dependencies = <<>>
    /\ type_idx = 1
    /\ count = 0
    /\ dependency_licenses = EmptyDict
    /\ dependency_urls = EmptyDict
    /\ results = <<>>
    /\ csv_rows = <<>>
    /\ md_rows = <<>>
    /\ missing_rows = <<>>
    /\ remote_requests = NoRequests
    /\ license_requests = 0
    /\ url_requests = 0
    /\ fetched = FALSE
    /\ ResolverIdle
    /\ InfraIdle
    /\ ScanIdle

\* repo_types = determine_repo_types(repo_dir); dependencies = {}
DetermineRepoTypes ==
    /\ extract_pc = "types"
    /\ repo_types' = determine_repo_types(repo_dir)
    /\ dependencies' = <<>>
    /\ extract_pc' = "python"
    /\ UNCHANGED <<repo_dir, extract_raised>>
    /\ UNCHANGED <<fetched, mapping_file,
                   registry, pc, repo_idx, dependency_map, type_idx, count,
                   dependency_licenses, dependency_urls, results, csv_rows, md_rows,
                   missing_rows, remote_requests, license_requests, url_requests>>
    /\ UNCHANGED <<resolver_vars, infra_vars, scan_vars>>

\* `if '<type>' in repo_types: dependencies['<type>'] = extract_..._dependencies(repo_dir)`
RunExtractor(e, next) ==
    /\ IF e \in repo_types
       THEN LET extracted == extract(e, repo_dir)
            IN  IF extracted.raised
                THEN /\ extract_raised' = TRUE
                     /\ extract_pc' = "crashed"
                     /\ UNCHANGED dependencies
                ELSE /\ dependencies' = Append(dependencies,
                                               [dep_type |-> Str(e), deps |-> extracted.deps])
                     /\ extract_pc' = next
                     /\ UNCHANGED extract_raised
       ELSE /\ extract_pc' = next
            /\ UNCHANGED <<dependencies, extract_raised>>
    /\ UNCHANGED <<repo_dir, repo_types>>
    /\ UNCHANGED <<fetched, mapping_file,
                   registry, pc, repo_idx, dependency_map, type_idx, count,
                   dependency_licenses, dependency_urls, results, csv_rows, md_rows,
                   missing_rows, remote_requests, license_requests, url_requests>>
    /\ UNCHANGED <<resolver_vars, infra_vars, scan_vars>>

ExtractPython ==
    /\ extract_pc = "python"
    /\ RunExtractor("python", "javascript")

ExtractJs ==
    /\ extract_pc = "javascript"
    /\ RunExtractor("javascript", "java")

ExtractJava ==
    /\ extract_pc = "java"
    /\ RunExtractor("java", "dotnet")

ExtractDotnet ==
    /\ extract_pc = "dotnet"
    /\ RunExtractor("dotnet", "done")

ExtractorNext ==
    \/ DetermineRepoTypes
    \/ ExtractPython
    \/ ExtractJs
    \/ ExtractJava
    \/ ExtractDotnet

SpecExtract == ExtractorInit /\ [][ExtractorNext]_vars

-----------------------------------------------------------------------------
(* infrastructure.py: analyze_repository's scan of a cloned tree for       *)
(* resources, as a function of the tree (SpecScan).  A file of the tree is *)
(* path         its path relative to repo_path                             *)
(* suffix       file_path.suffix                                           *)
(* excluded     a part of the path is node_modules, .venv, target, ...     *)
(* in_workflows ".github/workflows" is in the path                         *)
(* hits         what the AST walk or the regular expression finds, in order*)
(* loads        yaml.safe_load and the walk over jobs and steps succeed    *)
(* jobs         the jobs of a workflow: job_id and, for every azure/cli    *)
(*              step, what the regular expression finds in inlineScript    *)

\* number of files in the tree analyze_repository walks
MaxScanFiles == 2

\* @dataclass(frozen=True, eq=True) class InfraResource
InfraResource(name, resource_type, language, source_file, size) ==
    [name |-> name, resource_type |-> resource_type, language |-> language,
     source_file |-> source_file, size |-> size]

Hit(name, resource_type, size) == [name |-> name, resource_type |-> resource_type, size |-> size]

\* analyze_python_file(file_path, repo_root)
analyze_python_file(f) ==
    [i \in 1..Len(f.hits) |->
        InfraResource(f.hits[i].name, f.hits[i].resource_type, "Python", f.path, f.hits[i].size)]

\* analyze_typescript_file(file_path, repo_root)
analyze_typescript_file(f) ==
    [i \in 1..Len(f.hits) |->
        InfraResource(f.hits[i].name, f.hits[i].resource_type, "TypeScript", f.path,
                      f.hits[i].size)]

\* analyze_shell_content(content, source_id, language): size keeps its default
analyze_shell_content(hits, source_id, language) ==
    [i \in 1..Len(hits) |->
        InfraResource(hits[i].name, hits[i].resource_type, language, source_id, "N/A")]

\* the alphabetical position of the strings the sort key compares
Rank(s) ==
    CASE s = "GitHub Actions" -> 1 [] s = "Python" -> 2 [] s = "Shell" -> 3
      [] s = "TypeScript" -> 4 [] s = "az cosmosdb create" -> 5
      [] s = "azure.cosmosdb.Account" -> 6 [] s = "db" -> 7 [] OTHER -> 8

\* key=lambda r: (r.language, r.resource_type, r.name), compared as tuples
KeyLessEq(a, b) ==
    \/ Rank(a.language) < Rank(b.language)
    \/ /\ a.language = b.language
       /\ \/ Rank(a.resource_type) < Rank(b.resource_type)
          \/ a.resource_type = b.resource_type /\ Rank(a.name) <= Rank(b.name)

Elements(seq) == {seq[i] : i \in 1..Len(seq)}

\* sorted(list(set(found_resources)), key=...): one entry per distinct resource; the
\* order of entries with equal keys is the iteration order of the set, which is any
sorted_list_set(found) ==
    {order \in [1..Cardinality(Elements(found)) -> Elements(found)] :
        /\ \A i, j \in DOMAIN order : i # j => order[i] # order[j]
        /\ \A i, j \in DOMAIN order : i < j => KeyLessEq(order[i], order[j])}

RECURSIVE step_resources(_, _, _)
\* `for i, step in enumerate(job.get("steps", []))`: one extend per azure/cli step
step_resources(steps, source_id, acc) ==
    IF steps = <<>> THEN acc
    ELSE step_resources(Tail(steps), source_id,
                        acc \o analyze_shell_content(Head(steps), source_id, "GitHub Actions"))

RECURSIVE job_resources(_, _, _)
\* `for job_id, job in workflow.get("jobs", {}).items()`
job_resources(jobs, path, acc) ==
    IF jobs = <<>> THEN acc
    ELSE job_resources(Tail(jobs), path,
                       step_resources(Head(jobs).steps, <<path, Head(jobs).job_id>>, acc))

\* the body of `for f in workflow_files:`; an exception is printed as a warning
workflow_resources(f, report_resources) ==
    IF f.loads THEN job_resources(f.jobs, f.path, report_resources) ELSE report_resources

CosmosHit == Hit("db", "azure.cosmosdb.Account", "Standard")
CliHit == Hit("db", "az cosmosdb create", "N/A")

SourceFile(path, suffix, hits) ==
    [path |-> path, suffix |-> suffix, excluded |-> FALSE, in_workflows |-> FALSE,
     hits |-> hits, loads |-> TRUE, jobs |-> <<>>]

WorkflowFile(path, loads, jobs) ==
    [path |-> path, suffix |-> ".yml", excluded |-> FALSE, in_workflows |-> TRUE,
     hits |-> <<>>, loads |-> loads, jobs |-> jobs]

Job(job_id, steps) == [job_id |-> job_id, steps |-> steps]

ScanFiles ==
    {SourceFile("infra/main.py", ".py", <<CosmosHit>>),
     SourceFile("infra/main.py", ".py", <<CosmosHit, CosmosHit>>),
     SourceFile("infra/other.py", ".py", <<CosmosHit>>),
     SourceFile("infra/index.ts", ".ts", <<CosmosHit>>),
     SourceFile("deploy.sh", ".sh", <<CliHit, CliHit>>),
     SourceFile("docker-compose.yml", ".yml", <<>>),
     [SourceFile("build/main.py", ".py", <<CosmosHit>>) EXCEPT !.excluded = TRUE],
     WorkflowFile(".github/workflows/ci.yml", FALSE, <<>>),
     WorkflowFile(".github/workflows/ci.yml", TRUE, <<Job("deploy", <<<<CliHit>>>>)>>),
     WorkflowFile(".github/workflows/ci.yml", TRUE,
                  <<Job("deploy", <<<<CliHit>>, <<CliHit>>>>)>>),
     WorkflowFile(".github/workflows/ci.yml", TRUE,
                  <<Job("deploy", <<<<CliHit>>>>), Job("release", <<<<CliHit>>>>)>>)}

\* a tree holds every path once
ScanTrees ==
    {tree \in UNION {[1..n -> ScanFiles] : n \in 0..MaxScanFiles} :
        \A i, j \in DOMAIN tree : i # j => tree[i].path # tree[j].path}

ScanInit ==
    /\ repo_path \in ScanTrees
    /\ yaml \in BOOLEAN
    /\ scan_pc = "walk"
    /\ file_idx = 1
    /\ found_resources = <<>>
    /\ workflow_files = <<>>
    /\ resources = <<>>
    /\ AnalyzerIdle
    /\ ResolverIdle
    /\ InfraIdle
    /\ ExtractorIdle

\* one round of `for file_path in repo_path.rglob("*"):`
WalkFile ==
    /\ scan_pc = "walk"
    /\ file_idx <= Len(repo_path)
    /\ LET f == repo_path[file_idx]
       IN  /\ found_resources' =
                 IF f.excluded THEN found_resources
                 ELSE IF f.suffix = ".py" THEN found_resources \o analyze_python_file(f)
                 ELSE IF f.suffix = ".ts" THEN found_resources \o analyze_typescript_file(f)
                 ELSE IF f.suffix = ".sh"
                 THEN found_resources \o analyze_shell_content(f.hits, f.path, "Shell")
                 ELSE found_resources
           /\ workflow_files' =
                 IF ~f.excluded /\ f.suffix \in {".yml", ".yaml"} /\ f.in_workflows
                 THEN Append(workflow_files, f)
                 ELSE workflow_files
    /\ file_idx' = file_idx + 1
    /\ UNCHANGED <<repo_path, yaml, scan_pc, resources>>
    /\ UNCHANGED <<analyzer_vars, resolver_vars, infra_vars, extractor_vars>>

\* report.resources = sorted(list(set(found_resources)), key=...); `if yaml:`
SortResources ==
    /\ scan_pc = "walk"
    /\ file_idx > Len(repo_path)
    /\ resources' \in sorted_list_set(found_resources)
    /\ scan_pc' = IF yaml THEN "workflows" ELSE "return"
    /\ file_idx' = 1
    /\ UNCHANGED <<repo_path, yaml, found_resources, workflow_files>>
    /\ UNCHANGED <<analyzer_vars, resolver_vars, infra_vars, extractor_vars>>

\* one round of `for f in workflow_files:` with its try/except
ScanWorkflow ==
    /\ scan_pc = "workflows"
    /\ file_idx <= Len(workflow_files)
    /\ resources' = workflow_resources(workflow_files[file_idx], resources)
    /\ file_idx' = file_idx + 1
    /\ UNCHANGED <<repo_path, yaml, scan_pc, found_resources, workflow_files>>
    /\ UNCHANGED <<analyzer_vars, resolver_vars, infra_vars, extractor_vars>>

\* `return report`
ScanReturn ==
    /\ scan_pc = "workflows"
    /\ file_idx > Len(workflow_files)
    /\ scan_pc' = "return"
    /\ UNCHANGED <<repo_path, yaml, file_idx, found_resources, workflow_files, resources>>
    /\ UNCHANGED <<analyzer_vars, resolver_vars, infra_vars, extractor_vars>>

ScanNext == WalkFile \/ SortResources \/ ScanWorkflow \/ ScanReturn

SpecScan == ScanInit /\ [][ScanNext]_vars

-----------------------------------------------------------------------------
(* Properties of process_repositories and of the reports (Spec).           *)

\* the dependency that ResolveDep has just resolved
JustResolved == pc = "resolve" /\ type_idx <= Len(dependencies) /\ count >= 1
LastDep == CurrentDeps[count][1]
LastKey == Key(CurrentType, LastDep)

\* the rows of the loaded table under the lower-cased key of a dependency
TableRows(dep_type, dep) ==
    {dependency_map[i][2] : i \in {j \in 1..Len(dependency_map) :
        dependency_map[j][1] = <<Lower(dep_type), Lower(dep)>>}}

\* the rows of the file whose type and name equal a dependency's up to letter case
FileRows(dep_type, dep) ==
    {mapping_file[i] : i \in {j \in 1..Len(mapping_file) :
        /\ Lower(mapping_file[j].dependency_type) = Lower(dep_type)
        /\ Lower(mapping_file[j].dependency_name) = Lower(dep)}}

\* C1 as stated: a dependency whose lower-cased key is in the override table gets a
\* license carrying the marker and causes no remote request at all.
C1_Original ==
    (JustResolved /\ TableRows(CurrentType, LastDep) # {})
        => /\ \E row \in TableRows(CurrentType, LastDep) :
                 dependency_licenses[LastKey] = OverrideMarker \o row.license
           /\ license_requests = 0
           /\ url_requests = 0

\* C1 (amended): the override applies field by field.  When the table row under the
\* dependency's lower-cased key has a non-empty license, fetch_dependency_license
\* returns "! " + that license and issues no request; when it has a non-empty
\* documentation_url, fetch_dependency_url returns it and issues no request.
C1_OverridePreempts ==
    JustResolved =>
        \A row \in TableRows(CurrentType, LastDep) :
            /\ row.license # "" =>
                  /\ dependency_licenses[LastKey] = OverrideMarker \o row.license
                  /\ license_requests = 0
            /\ row.documentation_url # "" =>
                  /\ dependency_urls[LastKey] = row.documentation_url
                  /\ url_requests = 0

\* a dependency spelled with capitals is resolved from a row that gives both fields
C1_Witness ==
    /\ JustResolved
    /\ LastDep.up
    /\ \E row \in TableRows(CurrentType, LastDep) :
          row.license # "" /\ row.documentation_url # ""
    /\ license_requests = 0
    /\ url_requests = 0

\* C2 as stated: for a repository and an ecosystem, the number of remote calls never
\* exceeds the cap.
C2_Original == \A e \in Ecosystems : remote_requests[e] <= ResolveCap

\* the dependencies of an ecosystem for which the fetch functions were called
ResolvedOf(licenses, e) == {k \in DOMAIN licenses : k[1] = Str(e)}

\* C2 (amended): for a repository and an ecosystem, the number of dependencies handed
\* to fetch_dependency_license / fetch_dependency_url never exceeds the cap of 10,
\* however many were extracted (each of them may cost several HTTP requests).
C2_ResolvedWithinCap ==
    /\ count <= ResolveCap
    /\ \A e \in Ecosystems : Cardinality(ResolvedOf(dependency_licenses, e)) <= ResolveCap
    /\ \A r \in 1..Len(results), e \in Ecosystems :
          Cardinality(ResolvedOf(results[r].dependency_licenses, e)) <= ResolveCap

\* more dependencies than the cap were extracted and exactly the cap were resolved
C2_Witness ==
    /\ pc = "resolve"
    /\ type_idx <= Len(dependencies)
    /\ Len(CurrentDeps) > ResolveCap
    /\ count = ResolveCap
    /\ Cardinality(ResolvedOf(dependency_licenses, CurrentType.id)) = ResolveCap

CsvWritten == pc \in {"write_md", "write_missing", "done"}

\* the rows of the full report for one extracted dependency of one result
RowsFor(e) ==
    {i \in 1..Len(csv_rows) :
        /\ csv_rows[i].Result = e.result
        /\ csv_rows[i].DependencyType = e.dep_type
        /\ csv_rows[i].Dependency = e.dep}

\* skipped by the cap: the fetch functions were never called for it
Skipped(e) == Key(e.dep_type, e.dep) \notin DOMAIN results[e.result].dependency_licenses

EntrySet == {Entries(results)[i] : i \in 1..Len(Entries(results))}

\* C3 as stated: every extracted dependency has exactly one row in the full report,
\* and one skipped because of the cap has license 'Unknown' and an empty URL.
C3_Original ==
    CsvWritten =>
        \A e \in EntrySet :
            /\ Cardinality(RowsFor(e)) = 1
            /\ Skipped(e) =>
                  \A i \in RowsFor(e) : /\ csv_rows[i].DependencyLicense = Unknown
                                        /\ csv_rows[i].DocumentationURL = ""

\* C3 (amended): every extracted dependency has exactly one row in the full report,
\* also beyond the cap.  A skipped dependency has license 'Unknown' and an empty URL
\* in every field for which the override file, read again when the report is
\* written, gives no non-empty value; a field the file does give carries that value
\* (the license with the marker).
C3_EveryDependencyReported ==
    CsvWritten =>
        \A e \in EntrySet :
            /\ Cardinality(RowsFor(e)) = 1
            /\ Skipped(e) =>
                  \A i \in RowsFor(e) :
                     LET given == FileRows(e.dep_type, e.dep)
                     IN  /\ IF \E row \in given : row.license # ""
                            THEN \E row \in given :
                                    /\ row.license # ""
                                    /\ csv_rows[i].DependencyLicense
                                          = OverrideMarker \o row.license
                            ELSE csv_rows[i].DependencyLicense = Unknown
                         /\ IF \E row \in given : row.documentation_url # ""
                            THEN \E row \in given :
                                    /\ row.documentation_url # ""
                                    /\ csv_rows[i].DocumentationURL = row.documentation_url
                            ELSE csv_rows[i].DocumentationURL = ""

\* a dependency beyond the cap is reported with the unresolved markers
C3_Witness ==
    /\ CsvWritten
    /\ \E e \in EntrySet :
          /\ Skipped(e)
          /\ \E i \in RowsFor(e) : /\ csv_rows[i].DependencyLicense = Unknown
                                   /\ csv_rows[i].DocumentationURL = ""

-----------------------------------------------------------------------------
(* Properties of infrastructure.py (SpecInfra).                            *)

\* main() has left the `try` block
SchedulerFinished ==
    main_pc \in {"finally", "finally_raising", "done", "raised", "cleanup_raised"}

CloneFailed(i) ==
    /\ IsException(task_result[i])
    /\ task_result[i].error.msg = "Failed to clone"
    /\ task_result[i].error.url = repos[i]
Succeeded(i) == task_result[i].kind = "report"

\* the positions of successful_reports that hold the report of task i
ReportsOf(i) == {j \in 1..Len(successful_reports) : successful_reports[j] = task_result[i]}

\* C4: when the clone of a repository A fails, every other repository B whose own
\* clone and analysis succeed is still in the final list of successful reports, with
\* its own URL; no task is cancelled or skipped, wherever A stands in the list.
C4_FetchFailureIsolated ==
    SchedulerFinished =>
        /\ \A i \in Tasks : task_pc[i] = "done" /\ task_result[i] # NoResult
        /\ \A a, b \in Tasks :
              (a # b /\ CloneFailed(a) /\ Succeeded(b)) =>
                  \E j \in ReportsOf(b) : successful_reports[j].url = repos[b]

\* a clone fails before and after a repository that is reported
C4_Witness ==
    /\ main_pc = "done"
    /\ \E a, b, c \in Tasks :
          /\ a < b /\ b < c
          /\ CloneFailed(a) /\ CloneFailed(c)
          /\ Succeeded(b)
          /\ task_result[b].tree.state = "complete"
          /\ ReportsOf(b) # {}

\* the failed set: the URLs whose position in gather's results holds an exception
FailedUrls == {repos[i] : i \in {k \in 1..Len(gathered) : IsException(gathered[k])}}
SuccessfulUrls == {successful_reports[j].url : j \in 1..Len(successful_reports)}

\* C5 as stated: after the scheduler has finished, every input repository is in
\* exactly one of the successful list and the failed set.
C5_Original ==
    SchedulerFinished =>
        \A i \in Tasks : (repos[i] \in SuccessfulUrls) # (repos[i] \in FailedUrls)

\* C5, read per position of the input list instead of per repository: a failed task
\* is kept, with its error, as the exception object at its position of the list
\* that gather returns and is left out of successful_reports; every position yields
\* exactly one of the two, a report in successful_reports or an exception in the
\* results.
C5_FailedExcluded ==
    SchedulerFinished =>
        /\ Len(gathered) = Len(repos)
        /\ \A i \in Tasks :
              /\ gathered[i] = task_result[i]
              /\ IsException(gathered[i]) # (ReportsOf(i) # {})
              /\ IsException(gathered[i]) =>
                    \/ gathered[i].error = AnalysisError
                    \/ gathered[i].error = FailedToClone(repos[i])
        /\ \A j \in 1..Len(successful_reports) : ~IsException(successful_reports[j])
        /\ Len(successful_reports)
              = Cardinality({i \in Tasks : ~IsException(gathered[i])})

\* one task failed in its clone, one in its analysis, and one is reported
C5_Witness ==
    /\ main_pc = "done"
    /\ \E a, b, c \in Tasks :
          /\ CloneFailed(a)
          /\ IsException(gathered[b]) /\ gathered[b].error.msg = "analysis"
          /\ Succeeded(c) /\ ReportsOf(c) # {}
    /\ Len(successful_reports) < Len(repos)

-----------------------------------------------------------------------------
(* Properties of the fetch functions (SpecResolver).                       *)

Resolved == r_out.state = "done"

\* the override rows that match the resolved dependency up to letter case
MatchingRows ==
    {r_in.file[i] : i \in {j \in 1..Len(r_in.file) :
        /\ Lower(r_in.file[j].dependency_type) = Lower(r_in.dep_type)
        /\ Lower(r_in.file[j].dependency_name) = Lower(r_in.dependency)}}
LicenseGiven == \E row \in MatchingRows : row.license # ""
UrlGiven == \E row \in MatchingRows : row.documentation_url # ""

Failed(resp) == resp.status \in FailureStatuses

\* a registry is asked: the type is known and a java name has its group
Asked == r_in.dep_type.id \in Ecosystems
         /\ (r_in.dep_type.id = "java" => HasColon(r_in.dependency))

\* every request the license lookup depends on fails
LicenseLookupFails ==
    /\ Asked /\ ~LicenseGiven
    /\ Failed(r_in.env.lic)
    /\ r_in.dep_type.id = "dotnet" => Failed(r_in.env.url)

\* every request the URL lookup depends on fails
UrlLookupFails ==
    /\ Asked /\ ~UrlGiven
    /\ Failed(r_in.env.url)
    /\ r_in.dep_type.id = "dotnet" => (Raises(r_in.env.url) \/ Failed(r_in.env.lic))

\* the links fetch_dependency_url builds from the name alone
FallbackLinks(dep_type) ==
    IF dep_type = Str("python") THEN {PypiProject}
    ELSE IF dep_type = Str("javascript") THEN {NpmPackage}
    ELSE IF dep_type = Str("java") THEN {MvnArtifact, MvnSearch}
    ELSE IF dep_type = Str("dotnet") THEN {NugetPackage}
    ELSE {GoogleSearch}

\* the license field is there but is empty or is not a string
LicenseMisshaped == /\ Asked /\ ~LicenseGiven
                    /\ r_in.dep_type.id # "dotnet"
                    /\ Ok(r_in.env.lic)
                    /\ r_in.env.lic.license \in {"", DictLicense}
                    /\ extract_github_repo_from_url(r_in.env.lic.homepage) = None

-----------------------------------------------------------------------------
(* Properties of the stored results, the reports and the worklist (Spec).  *)

Done == pc = "done"

StoredLicense(e) ==
    GetOr(results[e.result].dependency_licenses, Key(e.dep_type, e.dep), Unknown)
StoredUrl(e) ==
    GetOr(results[e.result].dependency_urls, Key(e.dep_type, e.dep), "")

\* the worklist rows for a dependency, spelled as in the manifest
WorklistRows(e) ==
    {i \in 1..Len(missing_rows) :
        /\ missing_rows[i].dependency_type = e.dep_type
        /\ missing_rows[i].dependency_name = e.dep}

\* the registry answered 404 to both requests for this dependency and no override
\* row spoke for it
NotFound(e) ==
    /\ ~Skipped(e)
    /\ FileRows(e.dep_type, e.dep) = {}
    /\ RegistryAnswer(e.dep) = Failure("status_404")

\* C7 as stated: after a 404 the record has license 'Unknown' and an empty URL, no
\* exception propagates, and the dependency is in the full report and in the
\* worklist.
C7_Original ==
    /\ pc # "crashed"
    /\ Done =>
          \A e \in EntrySet :
              NotFound(e) =>
                  /\ StoredLicense(e) = Unknown
                  /\ StoredUrl(e) = ""
                  /\ RowsFor(e) # {}
                  /\ WorklistRows(e) # {}

\* C7 (amended): after a 404 the record has license 'Unknown' and, as URL, the link
\* built from the dependency's name (never the empty string); no exception
\* propagates; the full report shows both values and the worklist lists the
\* dependency with an empty license and that link.
C7_NotFoundReported ==
    /\ pc # "crashed"
    /\ Done =>
          \A e \in EntrySet :
              NotFound(e) =>
                  /\ StoredLicense(e) = Unknown
                  /\ StoredUrl(e) \in FallbackLinks(e.dep_type)
                  /\ StoredUrl(e) # ""
                  /\ \A i \in RowsFor(e) :
                        /\ csv_rows[i].DependencyLicense = Unknown
                        /\ csv_rows[i].DocumentationURL = StoredUrl(e)
                  /\ RowsFor(e) # {}
                  /\ Cardinality(WorklistRows(e)) = 1
                  /\ \A i \in WorklistRows(e) :
                        /\ missing_rows[i].license = ""
                        /\ missing_rows[i].documentation_url = StoredUrl(e)

\* a dependency the registry does not know went through both reports
C7_Witness ==
    /\ Done
    /\ \E e \in EntrySet :
          /\ NotFound(e)
          /\ StoredUrl(e) = PypiProject
          /\ RowsFor(e) # {}
          /\ WorklistRows(e) # {}

\* the non-empty values the loaded table gives for a field of a dependency
Given(e, column) == {row[column] : row \in TableRows(e.dep_type, e.dep)} \ {""}

\* the rows of the table the report writers build from the file as it is on disk
ReportRows(dep_type, dep) ==
    LET normalized_map == NormalizeSplitMap(load_dependency_mapping(mapping_file))
    IN  {normalized_map[i][2] : i \in {j \in 1..Len(normalized_map) :
            normalized_map[j][1] = <<Lower(dep_type), Lower(dep)>>}}

\* the non-empty values the file gives for a field when the reports are written
GivenInReports(e, column) == {row[column] : row \in ReportRows(e.dep_type, e.dep)} \ {""}

ReportedLicense(e) ==
    IF GivenInReports(e, "license") # {}
    THEN {OverrideMarker \o l : l \in GivenInReports(e, "license")}
    ELSE {PyStr(StoredLicense(e))}
ReportedUrl(e) ==
    IF GivenInReports(e, "documentation_url") # {}
    THEN GivenInReports(e, "documentation_url")
    ELSE {StoredUrl(e)}

LicenseFromOverride(e) ==
    \E l \in Given(e, "license") : StoredLicense(e) = OverrideMarker \o l
UrlFromOverride(e) == StoredUrl(e) \in Given(e, "documentation_url")

\* C8 as stated: license and URL of a record come from one attempt of one kind
\* (override, remote, or cutoff), never a mix, and the reports show the values of the
\* resolution stage unchanged.
C8_Original ==
    CsvWritten =>
        \A e \in EntrySet :
            /\ ~Skipped(e) => (LicenseFromOverride(e) <=> UrlFromOverride(e))
            /\ \A i \in RowsFor(e) :
                  /\ csv_rows[i].DependencyLicense = PyStr(StoredLicense(e))
                  /\ csv_rows[i].DocumentationURL = StoredUrl(e)

\* what the reports show for every extracted dependency
ReportsApplyOverride ==
    CsvWritten =>
        \A e \in EntrySet :
            \A i \in RowsFor(e) :
                /\ csv_rows[i].DependencyLicense \in ReportedLicense(e)
                /\ csv_rows[i].DocumentationURL \in ReportedUrl(e)

\* a value stored for a dependency of the current repository is not assigned again
StoredOnce ==
    (pc = "resolve" /\ pc' = "resolve" /\ repo_idx' = repo_idx) =>
        \A k \in DOMAIN dependency_licenses :
            /\ k \in DOMAIN dependency_licenses'
            /\ dependency_licenses'[k] = dependency_licenses[k]
            /\ k \in DOMAIN dependency_urls'
            /\ dependency_urls'[k] = dependency_urls[k]

\* a result that was appended is not touched again
ResultsKept ==
    /\ Len(results') >= Len(results)
    /\ \A r \in 1..Len(results) : results'[r] = results[r]

\* C8 (amended): license and URL are resolved independently of one another, each
\* once: a value stored for a dependency is never assigned again and an appended
\* result is never modified.  The reports do not show the stored values as they are:
\* they read the override file again and replace every field for which it gives a
\* non-empty value, also for a dependency that was skipped at the cap.
C8_ResolvedOnceOverriddenInReports ==
    /\ []ReportsApplyOverride
    /\ [][StoredOnce /\ ResultsKept]_vars

\* the report shows a license that the resolution stage did not store
C8_Witness ==
    /\ CsvWritten
    /\ \E e \in EntrySet :
          /\ Skipped(e)
          /\ \E i \in RowsFor(e) :
                /\ csv_rows[i].DependencyLicense # PyStr(StoredLicense(e))
                /\ csv_rows[i].DependencyLicense = OverrideMarker \o "MIT"

\* license unknown or empty, or URL empty
MissingRecord(e) == StoredLicense(e) \in {Unknown, ""} \/ StoredUrl(e) = ""

\* C9 as stated: a dependency is in the worklist if and only if in some repository
\* its license is unknown or empty or its URL is empty, and it has no entry in the
\* override table; one that has an entry never appears, also beyond the cap.
C9_Original ==
    Done =>
        \A e \in EntrySet :
            /\ WorklistRows(e) # {} <=>
                  /\ \E other \in EntrySet : /\ other.dep_type = e.dep_type
                                             /\ other.dep = e.dep
                                             /\ MissingRecord(other)
                  /\ TableRows(e.dep_type, e.dep) = {}
            /\ TableRows(e.dep_type, e.dep) # {} => WorklistRows(e) = {}

\* a dependency beyond the cap whose override row gives license and URL is reported
\* with the override values and listed in the worklist with empty fields
C9_Witness ==
    /\ Done
    /\ \E e \in EntrySet :
          /\ Skipped(e)
          /\ Given(e, "license") # {} /\ Given(e, "documentation_url") # {}
          /\ \E i \in RowsFor(e) : csv_rows[i].DependencyLicense = OverrideMarker \o "MIT"
          /\ \E i \in WorklistRows(e) : /\ missing_rows[i].license = ""
                                        /\ missing_rows[i].documentation_url = ""

\* the table the next run loads when the worklist is used as the override file
NextRunMap ==
    LET loaded == load_dependency_mapping(missing_rows)
    IN  IF loaded # <<>> THEN NormalizeMap(loaded) ELSE loaded

\* what the registries may answer in the next run
NextRunEnvs ==
    {[lic |-> st.resp, url |-> st.resp, gh_hit |-> st.gh_hit] : st \in RegistryStates}

NextLicense(row, env) ==
    fetch_dependency_license(row.dependency_name, row.dependency_type, row.version,
                             NextRunMap, env)
NextUrl(row, env) ==
    fetch_dependency_url(row.dependency_name, row.dependency_type, row.version,
                         NextRunMap, env)

\* the last worklist row whose type and name equal a row's up to letter case
LastRowLike(row) ==
    LET like == {j \in 1..Len(missing_rows) :
                    /\ Lower(missing_rows[j].dependency_type) = Lower(row.dependency_type)
                    /\ Lower(missing_rows[j].dependency_name) = Lower(row.dependency_name)}
    IN  missing_rows[CHOOSE j \in like : \A k \in like : k <= j]

-----------------------------------------------------------------------------
(* Properties of the full report for repositories without dependencies     *)
(* (Spec).                                                                 *)

\* the rows of the full report that belong to one result
RowsOfResult(r) == {i \in 1..Len(csv_rows) : csv_rows[i].Result = r}

\* the extractors found nothing in the repository of a result
NoDependencies(r) == EntriesOf(results, r) = <<>>

NotApplicable == "N/A"

\* C11 as stated: a successfully analysed repository without dependencies has
\* exactly one row in the full report, a sentinel whose dependency fields are
\* 'N/A'; so every result contributes at least one row.
C11_Original ==
    CsvWritten =>
        \A r \in 1..Len(results) :
            /\ RowsOfResult(r) # {}
            /\ NoDependencies(r) =>
                  /\ Cardinality(RowsOfResult(r)) = 1
                  /\ \A i \in RowsOfResult(r) :
                        /\ csv_rows[i].DependencyVersion = NotApplicable
                        /\ csv_rows[i].DependencyLicense = NotApplicable

\* a repository was analysed, nothing was extracted, and the full report has no
\* row for it
C11_Witness ==
    /\ CsvWritten
    /\ \E r \in 1..Len(results) :
          /\ NoDependencies(r)
          /\ results[r].types # {}
          /\ RowsOfResult(r) = {}

-----------------------------------------------------------------------------
(* Properties of the repository semaphore (SpecInfra).                     *)

\* the tasks between acquiring and releasing repo_semaphore
InProgress == {i \in Tasks : task_pc[i] = "cloning"}

\* a task goes through `async with repo_semaphore` in this step
Enters(i) == task_pc[i] = "waiting" /\ task_pc'[i] # "waiting"

\* C12: at every moment at most MAX_CONCURRENT_REPOS analyses are between acquiring
\* and releasing the repository semaphore, however many repositories are listed: the
\* tasks inside hold one permit each, and a task enters only while fewer than
\* MAX_CONCURRENT_REPOS are inside.
C12_BoundedConcurrency ==
    /\ [](/\ Cardinality(InProgress) <= MAX_CONCURRENT_REPOS
          /\ repo_semaphore >= 0
          /\ main_pc # "idle" =>
                repo_semaphore + Cardinality(InProgress) = MAX_CONCURRENT_REPOS)
    /\ [][\A i \in Tasks :
             Enters(i) => Cardinality(InProgress) + 1 <= MAX_CONCURRENT_REPOS]_vars

\* all permits are taken while another repository waits
C12_Witness ==
    /\ Cardinality(InProgress) = MAX_CONCURRENT_REPOS
    /\ repo_semaphore = 0
    /\ \E i \in Tasks : task_pc[i] = "waiting"

-----------------------------------------------------------------------------
(* Properties of determine_repo_types and of the extractors (SpecExtract). *)

Extracted == extract_pc = "done"

\* the files extractor e reads
ReadBy(e) ==
    CASE e = "python" -> {"requirements.txt", "setup.py", "pyproject.toml"}
      [] e = "javascript" -> {"package.json"}
      [] e = "java" -> {"pom.xml", "build.gradle", "Main.java"}
      [] e = "dotnet" -> {"App.csproj", "packages.config", "project.json"}

\* dependencies[e] of process_repositories, empty when the extractor did not run
ResultOf(e) ==
    IF \E t \in 1..Len(dependencies) : dependencies[t].dep_type = Str(e)
    THEN dependencies[CHOOSE t \in 1..Len(dependencies) : dependencies[t].dep_type = Str(e)].deps
    ELSE <<>>

Keys(d) == {d[i][1] : i \in 1..Len(d)}
Declared(f) == {f.entries[j].dep : j \in 1..Len(f.entries)} \cup {f.dev[j].dep : j \in 1..Len(f.dev)}
FilesOf(e) == {i \in 1..Len(repo_dir) : repo_dir[i].name \in ReadBy(e)}
Unparsed(f) == f.state # "ok"
WithoutUnreadable(tree) == SelectSeq(tree, LAMBDA f : f.state # "unreadable")

\* C13: a file that cannot be read or parsed never makes an extractor raise, and the
\* result of every extractor that ran holds every name declared by the files that do
\* parse; it is the result the tree without the unreadable files gives.
C13_ParseFailureIsolated ==
    /\ ~extract_raised
    /\ extract_pc # "crashed"
    /\ Extracted =>
          \A e \in repo_types :
             /\ \A i \in FilesOf(e) : ~Unparsed(repo_dir[i]) => Declared(repo_dir[i]) \subseteq Keys(ResultOf(e))
             /\ ResultOf(e) = extract(e, WithoutUnreadable(repo_dir)).deps

\* an extractor met a file it could not parse and a file of the same ecosystem it could
C13_Witness ==
    /\ Extracted
    /\ \E e \in repo_types : \E i, j \in FilesOf(e) :
          /\ Unparsed(repo_dir[i])
          /\ ~Unparsed(repo_dir[j])
          /\ Declared(repo_dir[j]) # {}
          /\ Declared(repo_dir[j]) \subseteq Keys(ResultOf(e))

-----------------------------------------------------------------------------
(* Termination and the reports of infrastructure.py (SpecInfraFair).       *)

Terminated == main_pc \in {"done", "raised", "cleanup_raised"}
SuccessfulSubset == FilterReports(task_result)
FullReport(reports) == write_md_report(reports, Len(reports))

\* C14 as stated: whatever clones and analyses fail, the run ends normally and has
\* written the report built from exactly the successful repositories, unless the
\* writing itself raised.
C14_Original ==
    <>(/\ Terminated
       /\ main_pc = "done" => md_report = FullReport(SuccessfulSubset))

\* C14: whatever clones and analyses fail, the run ends; failed repositories never
\* make main raise (only write_md_report and the removal of the temporary directory
\* can); when main ends normally and a
\* repository succeeded the report holds exactly the successful repositories, and
\* when none succeeded no report file is written.
C14_TerminatesWithSuccessfulSubset ==
    /\ <>Terminated
    /\ [](main_pc = "raised" => md_report.exists /\ ~md_report.complete)
    /\ [](main_pc = "done" =>
            /\ successful_reports = SuccessfulSubset
            /\ IF SuccessfulSubset = <<>> THEN md_report = NoReportFile
               ELSE md_report = FullReport(SuccessfulSubset))

\* a run that ended normally with a failed clone, a failed analysis and a report
C14_Witness ==
    /\ main_pc = "done"
    /\ \E a, b, c \in Tasks :
          /\ CloneFailed(a)
          /\ IsException(task_result[b]) /\ task_result[b].error = AnalysisError
          /\ Succeeded(c)
    /\ md_report = FullReport(SuccessfulSubset)
    /\ Len(md_report.sections) < Len(repos)

AllAnalysesFinished == \A i \in Tasks : task_pc[i] = "done"

\* C15 as stated: the report file is written only after every repository analysis
\* has finished, and a failure while the report is generated never leaves a report
\* file that holds only part of its sections.
C15_Original ==
    md_report.exists =>
        /\ AllAnalysesFinished
        /\ md_report.complete
        /\ md_report.sections = sorted_by_name(successful_reports)

\* write_md_report raised after it had written some of the sections
C15_Witness ==
    /\ main_pc = "raised"
    /\ AllAnalysesFinished
    /\ md_report.exists
    /\ Len(md_report.sections) >= 1
    /\ Len(md_report.sections) < Len(successful_reports)

\* the positions of `tasks` whose task returned a report
Reported == {i \in Tasks : Succeeded(i)}

\* C16: whatever the order in which the tasks finish, gather's results and the
\* successful reports are in the order of repos.txt, and the sections of the report
\* are the successful reports sorted by name (equal names in the order of repos.txt):
\* the output is a function of the repository list and of the per-repository results.
C16_OrderIndependent ==
    /\ main_pc \in {"report", "finally", "done"} => gathered = task_result
    /\ main_pc \in {"finally", "done"} =>
          /\ successful_reports = SuccessfulSubset
          /\ \A j, k \in 1..Len(successful_reports) :
                j < k => \E a, b \in Reported :
                            /\ a < b
                            /\ successful_reports[j] = task_result[a]
                            /\ successful_reports[k] = task_result[b]
          /\ md_report.exists => md_report = FullReport(SuccessfulSubset)
          /\ \A j, k \in 1..Len(md_report.sections) :
                j < k => md_report.sections[j].name <= md_report.sections[k].name

\* the tasks finished in another order than that of repos.txt, the names in
\* repos.txt are not sorted, and the report is written
C16_Witness ==
    /\ main_pc = "done"
    /\ out_of_order
    /\ Succeeded(1) /\ Succeeded(2) /\ Succeeded(3)
    /\ repos[2].name > repos[3].name
    /\ successful_reports[1] = task_result[1]
    /\ md_report.complete
    /\ md_report.sections # successful_reports

-----------------------------------------------------------------------------
(* The versions the extractors record (SpecExtract).                       *)

\* the declarations of the manifest and build files of ecosystem e that parse;
\* an import of a .java file is no manifest entry
Declarations(e) ==
    UNION {{repo_dir[i].entries[j] : j \in 1..Len(repo_dir[i].entries)}
              \cup {repo_dir[i].dev[j] : j \in 1..Len(repo_dir[i].dev)} :
           i \in {k \in FilesOf(e) : ~Unparsed(repo_dir[k]) /\ repo_dir[k].name # "Main.java"}}

\* the number of files of e that declare dep
DeclaredIn(e, dep) ==
    Cardinality({i \in FilesOf(e) : repo_dir[i].name # "Main.java" /\ dep \in Declared(repo_dir[i])})

Unpinned(d) == d.version = NoVersion

\* C17 as stated: in the result of every extractor that ran, a dependency whose only
\* declaration in the tree gives no version has the version 'latest', for every
\* ecosystem and both Gradle shapes.
C17_Original ==
    Extracted =>
        \A e \in repo_types : \A d \in Declarations(e) :
            (Unpinned(d) /\ DeclaredIn(e, d.dep) = 1) =>
                /\ DictHas(ResultOf(e), d.dep)
                /\ DictGet(ResultOf(e), d.dep) = Latest

\* a build.gradle declares a dependency as group/name without version
C17_Witness ==
    /\ Extracted
    /\ \E d \in Declarations("java") :
          /\ d.shape = "group_name"
          /\ Unpinned(d)
          /\ DeclaredIn("java", d.dep) = 1
          /\ DictGet(ResultOf("java"), d.dep) = ""

\* the position in the tree of the package.json files that parse
PackageJsons == {i \in 1..Len(repo_dir) : repo_dir[i].name = "package.json" /\ repo_dir[i].state = "ok"}
InBoth(f) == {f.entries[j].dep : j \in 1..Len(f.entries)} \cap {f.dev[j].dep : j \in 1..Len(f.dev)}
DevVersion(f, dep) == f.dev[CHOOSE j \in 1..Len(f.dev) : f.dev[j].dep = dep].version
RegularVersion(f, dep) == f.entries[CHOOSE j \in 1..Len(f.entries) : f.entries[j].dep = dep].version
\* no package.json visited after position i declares dep
LastToDeclare(i, dep) ==
    \A k \in (i + 1)..Len(repo_dir) :
        repo_dir[k].name = "package.json" => dep \notin Declared(repo_dir[k])

Orders(n) == {p \in [1..n -> 1..n] : \A i, j \in 1..n : i # j => p[i] # p[j]}
Visited(tree, p) == [i \in 1..Len(tree) |-> tree[p[i]]]

\* a dict as a name-to-version mapping, without its insertion order
AsMapping(d) == {<<d[i][1], d[i][2]>> : i \in 1..Len(d)}

\* C19 as stated: the name-to-version mapping an extractor returns for a tree is the
\* same for every order in which the files of the tree are visited, also when two
\* manifest files give different versions for a name.
C19_Original ==
    Extracted =>
        \A e \in repo_types : \A p \in Orders(Len(repo_dir)) :
            AsMapping(extract(e, Visited(repo_dir, p)).deps) = AsMapping(ResultOf(e))

\* two manifest files of the same name give different versions for a dependency, and
\* the extractor recorded the version of the file visited last
C19_Witness ==
    /\ Extracted
    /\ \E e \in repo_types : \E i, j \in FilesOf(e) :
          /\ i < j
          /\ repo_dir[i].name = repo_dir[j].name
          /\ ~Unparsed(repo_dir[i]) /\ ~Unparsed(repo_dir[j])
          /\ \E a \in 1..Len(repo_dir[i].entries), b \in 1..Len(repo_dir[j].entries) :
                /\ repo_dir[i].entries[a].dep = repo_dir[j].entries[b].dep
                /\ repo_dir[i].entries[a].version # repo_dir[j].entries[b].version
                /\ repo_dir[j].entries[b].version # NoVersion
                /\ DictGet(ResultOf(e), repo_dir[j].entries[b].dep)
                      = repo_dir[j].entries[b].version
                /\ repo_dir[j].dev = <<>>

\* the extensions of an ecosystem's source files
SourceExtensions(e) ==
    CASE e = "python" -> {".py"}
      [] e = "javascript" -> {".js", ".jsx", ".ts", ".tsx"}
      [] e = "java" -> {".java"}
      [] e = "dotnet" -> {".cs"}

HasSignal(e) ==
    \E i \in 1..Len(repo_dir) :
        \/ Extension(repo_dir[i].name) \in SourceExtensions(e)
        \/ repo_dir[i].name \in ReadBy(e)

ExtractorRan(e) == \E t \in 1..Len(dependencies) : dependencies[t].dep_type = Str(e)

\* C20 as stated: an ecosystem is detected exactly when the tree holds a file with one
\* of its source extensions or a manifest file its extractor reads, and the extractor
\* of every such ecosystem runs.
C20_Original ==
    /\ extract_pc # "types" => \A e \in Ecosystems : (e \in repo_types) <=> HasSignal(e)
    /\ Extracted => \A e \in Ecosystems : HasSignal(e) => ExtractorRan(e)

\* a tree whose only Python file is a pyproject.toml that declares a dependency
C20_Witness ==
    /\ Extracted
    /\ \E i \in 1..Len(repo_dir) :
          /\ repo_dir[i].name = "pyproject.toml"
          /\ ~Unparsed(repo_dir[i])
          /\ Declared(repo_dir[i]) # {}
    /\ HasSignal("python")
    /\ "python" \notin repo_types
    /\ ~ExtractorRan("python")

-----------------------------------------------------------------------------
(* Properties of the override lookup, the worklist and the run (C21..).    *)

\* two spellings of one string that differ in letter case only
SameUpToCase(a, b) == [a EXCEPT !.up = FALSE] = [b EXCEPT !.up = FALSE]

\* the positions of the file's rows whose type and name are the dependency's up to case
RowsMatching(dep_type, dep) ==
    {j \in 1..Len(mapping_file) :
        /\ SameUpToCase(mapping_file[j].dependency_type, dep_type)
        /\ SameUpToCase(mapping_file[j].dependency_name, dep)}

\* C21: whenever a row of the override file has the type and the name of an extracted
\* dependency up to letter case, in the file or in the manifest, the lookup of the
\* fetch functions finds exactly one row under the lower-cased key, that row is one
\* of the file's rows for the dependency, and its non-empty license is returned.
C21_LookupIgnoresCase ==
    (JustResolved /\ RowsMatching(CurrentType, LastDep) # {})
        => /\ DictHas(dependency_map, <<Str(CurrentType.id), [LastDep EXCEPT !.up = FALSE]>>)
           /\ Cardinality(TableRows(CurrentType, LastDep)) = 1
           /\ \A row \in TableRows(CurrentType, LastDep) :
                 /\ \E j \in RowsMatching(CurrentType, LastDep) : row = mapping_file[j]
                 /\ row.license # ""
                       => dependency_licenses[LastKey] = OverrideMarker \o row.license

\* the row and the manifest spell the same dependency in different letter case, the
\* row also capitalises the ecosystem, and the row's license is the one returned
C21_Witness ==
    /\ JustResolved
    /\ \E j \in RowsMatching(CurrentType, LastDep) :
          /\ mapping_file[j].dependency_name.up # LastDep.up
          /\ mapping_file[j].dependency_type.up
          /\ mapping_file[j] \in TableRows(CurrentType, LastDep)
          /\ dependency_licenses[LastKey] = OverrideMarker \o mapping_file[j].license

\* the alphabetical position of an ecosystem name
EcosystemRank(e) ==
    CASE e = "dotnet" -> 1 [] e = "java" -> 2 [] e = "javascript" -> 3 [] OTHER -> 4

\* row a comes before row b in the order (ecosystem, name)
RowBefore(a, b) ==
    \/ EcosystemRank(a.dependency_type.id) < EcosystemRank(b.dependency_type.id)
    \/ /\ a.dependency_type.id = b.dependency_type.id
       /\ a.dependency_name.id <= b.dependency_name.id

WorklistWritten == pc = "done"

\* C22 as stated: the rows of the missing-data worklist are sorted by (ecosystem, name).
C22_Original ==
    WorklistWritten =>
        \A i, j \in 1..Len(missing_rows) : i < j => RowBefore(missing_rows[i], missing_rows[j])

\* C22 (what the code does): the worklist holds each dependency with missing data once,
\* in the order in which the results first list it: repository by repository, ecosystem
\* by ecosystem in detection order, dependency by dependency in extraction order.
C22_FirstSeenOrder ==
    WorklistWritten =>
        /\ \A i, j \in 1..Len(missing_rows) :
              i # j => Key(missing_rows[i].dependency_type, missing_rows[i].dependency_name)
                       # Key(missing_rows[j].dependency_type, missing_rows[j].dependency_name)
        /\ \A i, j \in 1..Len(missing_rows) :
              i < j =>
                 \E a, b \in 1..Len(Entries(results)) :
                    /\ a < b
                    /\ Entries(results)[a].dep = missing_rows[i].dependency_name
                    /\ Entries(results)[a].dep_type = missing_rows[i].dependency_type
                    /\ Entries(results)[b].dep = missing_rows[j].dependency_name
                    /\ Entries(results)[b].dep_type = missing_rows[j].dependency_type

\* a python row is written before a dotnet row
C22_Witness ==
    /\ WorklistWritten
    /\ \E i, j \in 1..Len(missing_rows) :
          /\ i < j
          /\ missing_rows[i].dependency_type.id = "python"
          /\ missing_rows[j].dependency_type.id = "dotnet"

Returned == scan_pc = "return"

Duplicated(seq) == \E i, j \in 1..Len(seq) : i # j /\ seq[i] = seq[j]

\* C23 as stated: the resources of a returned report hold no two equal entries,
\* entries derived from GitHub Actions workflow steps included.
C23_Original == Returned => ~Duplicated(resources)

\* C23 (what the code does): the entries found in .py, .ts and .sh files are distinct
\* and sorted by (language, resource_type, name); the entries of workflow steps follow
\* them in the order of the files, jobs and steps, one per match, repeated or not.
C23_ScannedFilesDistinct ==
    Returned =>
        LET scanned == SelectSeq(resources, LAMBDA r : r.language # "GitHub Actions")
        IN  /\ ~Duplicated(scanned)
            /\ Elements(scanned) = Elements(found_resources)
            /\ scanned = SubSeq(resources, 1, Len(scanned))

\* two steps of one job run the same az command: the report lists the resource twice
C23_Witness ==
    /\ Returned
    /\ \E i, j \in 1..Len(resources) :
          /\ i # j
          /\ resources[i] = resources[j]
          /\ resources[i].language = "GitHub Actions"

\* the record results.append adds for the repository at hand
AssembledRecord ==
    [repository |-> repositories[repo_idx], types |-> repo_types,
     dependencies |-> dependencies, dependency_licenses |-> dependency_licenses,
     dependency_urls |-> dependency_urls]

\* one step of process_repositories keeps the order of the stages of a repository
StageStep ==
    \* the loop never goes back to an earlier repository
    /\ repo_idx' \in {repo_idx, repo_idx + 1}
    \* Fetch succeeded: Detect and Extract run, Resolve is entered for the same repository
    /\ (pc = "clone" /\ pc' = "resolve") => (fetched' /\ repo_idx' = repo_idx)
    \* Resolve is entered after a successful Fetch only
    /\ pc' = "resolve" => fetched'
    \* Fetch failed: the next repository is at Fetch and no record was added
    /\ (pc = "clone" /\ repo_idx' # repo_idx)
          => (~fetched' /\ pc' = "clone" /\ results' = results
              /\ repo_types' = repo_types /\ dependencies' = dependencies
              /\ dependency_licenses' = dependency_licenses)
    \* Resolve is left for Assemble, which adds the record and moves to the next Fetch
    /\ (pc = "resolve" /\ pc' # "resolve")
          => \/ pc' = "crashed" /\ results' = results
             \/ /\ pc' = "clone"
                /\ results' = Append(results, AssembledRecord)
                /\ repo_idx' = repo_idx + 1
    \* a record is added by Assemble only
    /\ results' # results => (pc = "resolve" /\ pc' = "clone")
    \* detection and extraction are not run again during Resolve
    /\ (pc = "resolve" /\ pc' = "resolve")
          => (repo_types' = repo_types /\ dependencies' = dependencies
              /\ repo_idx' = repo_idx)

\* C24: in process_repositories every repository passes through Fetch, Detect,
\* Extract, Resolve and Assemble in that order, each at most once and with no return
\* to an earlier stage or repository; when Fetch fails none of the later stages is
\* entered for the repository and no record is added to the results.
C24_StagesInOrder == [][StageStep]_vars

\* the fetch of the first repository failed, no record was added for it and the
\* second repository has been assembled
C24_Witness ==
    /\ pc = "clone"
    /\ repo_idx = 3
    /\ fetched
    /\ Len(results) = 1
    /\ results[1].repository = repositories[2]

\* the requests of one fetch call that no time.sleep precedes: every sleep of a fetch
\* function comes before its first request, so at most the first request is delayed
Undelayed(call) ==
    IF call.requests >= 1 /\ call.sleeps >= 1 THEN call.requests - 1 ELSE call.requests

\* C25 as stated: the rate-limit delay elapses between any two consecutive remote
\* requests of a resolution, the follow-up requests for a license file and the second
\* step of the .NET lookup included.
C25_Original ==
    Resolved => (Undelayed(r_out.license) = 0 /\ Undelayed(r_out.url) = 0)

\* C25 (what the code does): every fetch call that issues a request sleeps before its
\* first request; the requests that follow in the same call are issued back to back.
C25_DelayBeforeFirstRequest ==
    Resolved =>
        /\ r_out.license.requests >= 1 => r_out.license.sleeps >= 1
        /\ r_out.url.requests >= 1 => r_out.url.sleeps >= 1

\* a python license lookup goes on to the source-hosting site: the registry request
\* and all the license-file requests follow one sleep
C25_Witness ==
    /\ Resolved
    /\ r_in.dep_type = Str("python")
    /\ r_out.license.sleeps = 1
    /\ r_out.license.requests = 1 + GithubRequests

\* the table a fresh load of the file on disk gives, keyed in lower case
TableOnDisk == NormalizeSplitMap(load_dependency_mapping(mapping_file))

MdWritten == pc \in {"write_missing", "done"}

\* C26 as stated: the table is loaded once and never reloaded: the reports are written
\* with the table that was consulted during resolution, even if the override file
\* changes on disk during the run.
C26_Original ==
    CsvWritten =>
        \A i \in 1..Len(csv_rows) :
            csv_rows[i] = CsvRow(results, dependency_map, Entries(results)[i])

\* the table of process_repositories is the file as it was at the start of the run
LoadedBeforeRepositories ==
    pc \in {"clone", "resolve"} => dependency_map = TableOnDisk

\* the table of process_repositories is assigned by the load at the start only
NeverReloadedInResolution == pc # "start" => dependency_map' = dependency_map

\* both report writers use the file as it is on disk when they run
ReportsReload ==
    /\ CsvWritten =>
          /\ Len(csv_rows) = Len(Entries(results))
          /\ \A i \in 1..Len(csv_rows) :
                csv_rows[i] = CsvRow(results, TableOnDisk, Entries(results)[i])
    /\ MdWritten =>
          /\ Len(md_rows) = Len(csv_rows)
          /\ \A i \in 1..Len(md_rows) :
                md_rows[i].License = csv_rows[i].DependencyLicense

\* C26 (amended): process_repositories loads the override table once, before any
\* repository is processed, and resolves every dependency with that table; it never
\* reloads or modifies it.  write_results_to_csv and generate_markdown_report each
\* load the override file again: the reports are written with the file as it is on
\* disk at that moment, so an edit of the file during the run shows in the reports.
C26_LoadedOnceReloadedForReports ==
    /\ []LoadedBeforeRepositories
    /\ []ReportsReload
    /\ [][NeverReloadedInResolution]_vars

\* the file was edited during the run: the report shows the license of the edited
\* file for a dependency that was resolved from the registry
C26_Witness ==
    /\ MdWritten
    /\ mapping_file = EditedFile
    /\ dependency_map # TableOnDisk
    /\ \E e \in EntrySet :
          /\ ~Skipped(e)
          /\ StoredLicense(e) = "MIT"
          /\ \A i \in RowsFor(e) :
                /\ csv_rows[i].DependencyLicense = OverrideMarker \o "Apache-2.0"
                /\ md_rows[i].License = OverrideMarker \o "Apache-2.0"

\* C27 as stated: a removal of the working directory that fails is reported as a
\* warning and never raises: the run is not aborted by a cleanup failure.
C27_Original == main_pc # "cleanup_raised"

\* C27 (what the code does): the removal is attempted on every exit path of main, once
\* the tasks are gathered; when it raises the directory is left behind and main ends
\* with that exception, after the report has been written or has failed.
C27_CleanupOnEveryExit ==
    /\ main_pc \in {"done", "raised"} =>
          \A n \in DOMAIN work_dir : work_dir[n].state = "absent"
    /\ main_pc = "cleanup_raised" =>
          (successful_reports # <<>> => md_report.exists)

\* every repository was analysed and the report is complete, yet main ends with the
\* exception of rmtree and the working directory is still there
C27_Witness ==
    /\ main_pc = "cleanup_raised"
    /\ md_report.complete
    /\ \A i \in Tasks : Succeeded(i)
    /\ \E n \in DOMAIN work_dir : work_dir[n].state # "absent"

\* C28 as stated: every successful report is computed from a tree that was completely
\* fetched from the repository's own URL, also for URLs that share their last path
\* segment and are analysed concurrently.
C28_Original ==
    \A i \in Tasks :
        Succeeded(i) => /\ task_result[i].tree.state = "complete"
                        /\ task_result[i].tree.owner = repos[i].owner

\* C28 (what the code does): a task that finds no directory of its name clones its
\* own URL and reports the complete tree; a task that finds one reports whatever the
\* directory holds at that moment, without cloning.
C28_OwnTreeUnlessDirectoryExists ==
    \A i \in Tasks :
        Succeeded(i) =>
            \/ /\ task_result[i].tree.state = "complete"
               /\ task_result[i].tree.owner = repos[i].owner
            \/ \E j \in Tasks : j # i /\ RepoName(repos[j]) = RepoName(repos[i])

\* two URLs of different owners share their last segment: the second task reports
\* the tree the first one was still cloning from the other owner's URL
C28_Witness ==
    \E i, j \in Tasks :
        /\ j < i
        /\ RepoName(repos[i]) = RepoName(repos[j])
        /\ repos[i].owner # repos[j].owner
        /\ Succeeded(i)
        /\ task_result[i].tree.state = "populating"
        /\ task_result[i].tree.owner = repos[j].owner
        /\ task_result[i].url = repos[i]

\* every task has left `async with repo_semaphore` and every permit is back
AllPermitsBack ==
    (\A i \in 1..NumBlockedRepos : task_pc[i] = "done")
        => repo_semaphore = MAX_CONCURRENT_REPOS

\* a task that leaves the block, with a report or an exception, gives its permit back
ReleasedOnExit ==
    \A i \in 1..NumBlockedRepos :
        (task_pc[i] = "cloning" /\ task_pc'[i] = "done")
            => /\ repo_semaphore' = repo_semaphore + 1
               /\ task_result'[i] # NoResult

\* C29: the repository semaphore is released on every exit path of an analysis, also
\* when analyze_repository raises, so that with more repositories than
\* MAX_CONCURRENT_REPOS every task eventually acquires the semaphore and finishes
\* with a report or an exception, and the joint await of all tasks returns.
C29_EveryTaskFinishes ==
    /\ <>(/\ \A i \in 1..NumBlockedRepos :
                 task_pc[i] = "done" /\ task_result[i] # NoResult
           /\ main_pc # "gather"
           /\ Len(gathered) = NumBlockedRepos)
    /\ []AllPermitsBack
    /\ [][ReleasedOnExit]_vars

\* the first task left the block by an exception and the other tasks, one more than
\* the permits that were left, are all inside: the permit it gave back is in use
C29_Witness ==
    /\ task_pc[1] = "done"
    /\ IsException(task_result[1])
    /\ \A i \in 2..NumBlockedRepos : task_pc[i] = "cloning"
    /\ Cardinality(InProgress) = MAX_CONCURRENT_REPOS
    /\ repo_semaphore = 0

\* what pom.xml and build.gradle alone declare, before the .java files are scanned
ManifestRecords ==
    parse_files(find_files(repo_dir, "pom.xml") \o find_files(repo_dir, "build.gradle"),
                Done_(<<>>)).deps

\* C30: in extract_java_dependencies the import heuristic never replaces or alters a
\* record declared in a manifest: every name extracted from a pom.xml or build.gradle
\* keeps its declared version after the import scan, and every record the heuristic
\* adds is for an imported artifact and carries the version 'detected-from-import'.
C30_ImportsNeverReplaceDeclared ==
    (Extracted /\ ExtractorRan("java")) =>
        /\ \A k \in Keys(ManifestRecords) :
              /\ DictHas(ResultOf("java"), k)
              /\ DictGet(ResultOf("java"), k) = DictGet(ManifestRecords, k)
        /\ \A k \in Keys(ResultOf("java")) \ Keys(ManifestRecords) :
              /\ k \in imported_artifacts(repo_dir)
              /\ DictGet(ResultOf("java"), k) = DetectedFromImport
        /\ \A k \in imported_artifacts(repo_dir) : DictHas(ResultOf("java"), k)

\* an artifact that pom.xml declares with a version is also imported by a .java file
\* and keeps the declared version
C30_Witness ==
    /\ Extracted
    /\ ExtractorRan("java")
    /\ JavaDep \in imported_artifacts(repo_dir)
    /\ DictHas(ManifestRecords, JavaDep)
    /\ DictGet(ManifestRecords, JavaDep) = "1.0"
    /\ DictGet(ResultOf("java"), JavaDep) = "1.0"

\* an imported artifact that no manifest declares is recorded with the label
C30_AddedWitness ==
    /\ Extracted
    /\ ExtractorRan("java")
    /\ ~DictHas(ManifestRecords, JavaDep)
    /\ DictGet(ResultOf("java"), JavaDep) = DetectedFromImport

====
